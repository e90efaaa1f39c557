-------------------------- MODULE RCFSession_proofs --------------------------
(***************************************************************************)
(* Proofs about RCFSession, for any number of sessions, any catalogue and  *)
(* any bounds: the types of its variables, and that nobody is served who   *)
(* has not proved to be the user it is served as.                          *)
(***************************************************************************)
EXTENDS RCFSession, TLAPS, SequenceTheorems

(***************************************************************************)
(* The operators the actions are built from.                               *)
(***************************************************************************)
(* Client::execute's ps stays one of its four states.                       *)
LEMMA SectionNames == DOMAIN Section = {"toplevel", "inexec", "out", "err"}
BY DEF Section

LEMMA SectionNext ==
  ASSUME NEW p \in DOMAIN Section, NEW h \in DOMAIN Section[p]
  PROVE  Section[p][h] \in DOMAIN Section
BY DEF Section

(* A keyword makes a text, with or without an argument.                     *)
LEMMA TextType ==
  ASSUME NEW h \in Heads PROVE Text(h) \in Messages
BY DEF Text, Messages, Arguments

LEMMA WithType ==
  ASSUME NEW h \in Heads, NEW a \in Arguments PROVE With(h, a) \in Messages
BY DEF With, Messages

LEMMA KeywordIsHead == ASSUME NEW h \in Keywords PROVE h \in Heads
BY DEF Heads

(* Queues of texts stay queues of texts.                                    *)
LEMMA PutType ==
  ASSUME NEW C, NEW f \in [Sessions -> Seq(C)], NEW s \in Sessions, NEW m \in C
  PROVE  [f EXCEPT ![s] = Append(@, m)] \in [Sessions -> Seq(C)]
OBVIOUS

LEMMA TailType ==
  ASSUME NEW C, NEW f \in [Sessions -> Seq(C)], NEW s \in Sessions, f[s] # <<>>
  PROVE  /\ [f EXCEPT ![s] = Tail(@)] \in [Sessions -> Seq(C)]
         /\ Head(f[s]) \in C
OBVIOUS

(* A query resolves to a command of the catalogue that its user may         *)
(* execute, or to none.                                                     *)
LEMMA FirstType ==
  ASSUME NEW C, NEW objects \in Seq(C), NEW name PROVE First(objects, name) \subseteq C
BY DEF First

LEMMA TargetType ==
  ASSUME NEW path \in Seq(STRING), path # <<>>
  PROVE  Target(path) \subseteq Commands
<1>. SUFFICES ASSUME NEW way \in Ways(path),
                     NEW c \in First(IF Len(path) = 1 THEN TopCommands
                                     ELSE CommandsIn[way[Len(path) - 1]],
                                     path[Len(path)])
              PROVE  c \in Commands
  BY DEF Target
<1>1. CASE Len(path) = 1
  BY <1>1, FirstType, CatalogueAssumption DEF CatalogueAssumption
<1>2. CASE Len(path) # 1
  <2>1. Len(path) \in Nat /\ Len(path) # 0
    BY EmptySeq, LenProperties
  <2>2. way[Len(path) - 1] \in CommandGroups
    BY SMTT(60), <1>2, <2>1 DEF Ways
  <2>. QED BY <1>2, <2>2, FirstType, CatalogueAssumption DEF CatalogueAssumption
<1>. QED BY <1>1, <1>2

LEMMA ResolveType ==
  ASSUME NEW q \in Queries, NEW u
  PROVE  /\ Resolve(Path[q], u).answer \in {"RUN", "ERROR", "NCERROR"}
         /\ Resolve(Path[q], u).cmd \in Commands \cup {None}
         /\ Resolve(Path[q], u).answer = "RUN" =>
              /\ Resolve(Path[q], u).cmd \in Commands
              /\ CanExecute(Resolve(Path[q], u).cmd, u)
<1>1. Path[q] \in Seq(STRING) /\ Path[q] # <<>>
  BY SessionAssumption DEF SessionAssumption
<1>. QED BY <1>1, TargetType DEF Resolve

(* The report of a run is made of texts.                                    *)
LEMMA ReportType ==
  ASSUME NEW o \in Outputs, NEW code \in Codes
  PROVE  Report(o, code) \in Seq(Messages)
<1>1. Texts(Lines(o[1])) \in Seq(Messages) /\ Texts(Lines(o[2])) \in Seq(Messages)
  <2>1. Lines(o[1]) \in Seq(Heads) /\ Lines(o[2]) \in Seq(Heads)
    BY OutputsAssumption DEF OutputsAssumption, Heads
  <2>. QED BY SMTT(60), <2>1, TextType DEF Texts
<1>2. /\ With("EXECEND", code) \in Messages /\ Text("OUTBEGIN") \in Messages
      /\ Text("OUTEND") \in Messages /\ Text("ERRBEGIN") \in Messages
      /\ Text("ERREND") \in Messages
  BY TextType, WithType, KeywordIsHead DEF Keywords, Arguments
<1>. QED BY <1>1, <1>2, ConcatProperties DEF Report
-----------------------------------------------------------------------------
(***************************************************************************)
(* Type correctness: a step of the client leaves the variables of the      *)
(* thread alone, or moves it on with the handshake, and conversely.        *)
(***************************************************************************)
LEMMA ThreadTypesKept == ASSUME ThreadTypes, UNCHANGED thread PROVE ThreadTypes'
BY DEF ThreadTypes, thread

LEMMA ClientTypesKept == ASSUME ClientTypes, UNCHANGED client PROVE ClientTypes'
BY DEF ClientTypes, client, login, request, execution

(* Most steps of the client read a text or nothing and go somewhere.        *)
LEMMA MoveTypes ==
  ASSUME TypeOK, NEW s \in Sessions,
         cpc' \in [Sessions -> ClientPlaces],
         s2c' \in [Sessions -> Seq(Messages)], c2s' \in [Sessions -> Seq(Messages)],
         UNCHANGED <<up, ran, login, request, execution, thread>>
  PROVE  TypeOK'
<1>1. ThreadTypes'
  BY ThreadTypesKept DEF TypeOK
<1>2. ClientTypes'
  BY DEF TypeOK, ClientTypes, login, request, execution
<1>. QED BY <1>1, <1>2 DEF TypeOK

LEMMA ClientReadsTypes ==
  ASSUME TypeOK, NEW s \in Sessions, NEW where, ClientReads(s, where)
  PROVE  s2c' \in [Sessions -> Seq(Messages)] /\ Reply(s) \in Messages
BY TailType DEF TypeOK, ClientReads, Reply

LEMMA ServerReadsTypes ==
  ASSUME TypeOK, NEW s \in Sessions, NEW where, ServerReads(s, where)
  PROVE  c2s' \in [Sessions -> Seq(Messages)] /\ Received(s) \in Messages
BY TailType DEF TypeOK, ServerReads, Received

(* The steps of the client that change no more than its place.              *)
LEMMA ClientMovesTypes ==
  ASSUME TypeOK, NEW s \in Sessions,
         \/ TlsReject(s) \/ RecvHello(s) \/ RecvPassReply(s)
         \/ RecvListBegin(s) \/ RecvListLine(s) \/ RecvClose(s)
         \/ RecvNotFound(s) \/ RecvUnexpected(s) \/ ClientReadThrows(s) \/ Lost(s)
  PROVE  TypeOK'
<1>1. cpc' \in [Sessions -> ClientPlaces]
  BY DEF TypeOK, ClientTypes, TlsReject, RecvHello, RecvPassReply, RecvListBegin,
         RecvListLine, RecvClose, RecvNotFound, RecvUnexpected, ClientReadThrows,
         Lost, Set, ClientPlaces, Reading, Gone
<1>2. s2c' \in [Sessions -> Seq(Messages)] /\ c2s' = c2s
  BY ClientReadsTypes DEF TypeOK, TlsReject, RecvHello, RecvPassReply,
     RecvListBegin, RecvListLine, RecvClose, RecvNotFound, RecvUnexpected,
     ClientReadThrows, Lost
<1>3. UNCHANGED <<up, ran, login, request, execution, thread>>
  BY DEF TlsReject, RecvHello, RecvPassReply, RecvListBegin, RecvListLine,
     RecvClose, RecvNotFound, RecvUnexpected, ClientReadThrows, Lost
<1>. QED BY <1>1, <1>2, <1>3, MoveTypes DEF TypeOK

LEMMA SendHelloTypes ==
  ASSUME TypeOK, NEW s \in Sessions, SendHello(s) PROVE TypeOK'
<1>1. cpc' \in [Sessions -> ClientPlaces]
  BY DEF TypeOK, ClientTypes, SendHello, Set, ClientPlaces, Reading
<1>2. c2s' \in [Sessions -> Seq(Messages)]
  <2>1. Text("RCFINIT") \in Messages
    BY TextType, KeywordIsHead DEF Keywords
  <2>. QED BY <2>1, PutType DEF TypeOK, SendHello, Put
<1>. QED BY <1>1, <1>2, MoveTypes DEF SendHello, TypeOK

LEMMA RecvUserReplyTypes ==
  ASSUME TypeOK, NEW s \in Sessions, RecvUserReply(s) PROVE TypeOK'
<1>1. cpc' \in [Sessions -> ClientPlaces]
  BY DEF TypeOK, ClientTypes, RecvUserReply, Set, ClientPlaces, Reading, Gone
<1>2. c2s' \in [Sessions -> Seq(Messages)]
  <2>1. With("PASS", cpass[s]) \in Messages
    BY WithType, KeywordIsHead DEF TypeOK, ClientTypes, Arguments, Keywords
  <2>2. CASE Put(c2s, s, With("PASS", cpass[s]))
    BY <2>1, <2>2, PutType DEF TypeOK, Put
  <2>3. CASE c2s' = c2s
    BY <2>3 DEF TypeOK
  <2>. QED BY <2>2, <2>3 DEF RecvUserReply
<1>. QED BY <1>1, <1>2, MoveTypes, ClientReadsTypes DEF RecvUserReply, TypeOK

(* Connect and TlsHandshake move the client and the thread together.        *)
LEMMA HandshakeTypes ==
  ASSUME TypeOK, NEW s \in Sessions, Connect(s) \/ TlsHandshake(s) PROVE TypeOK'
<1>1. ClientTypes'
  BY DEF TypeOK, ClientTypes, Connect, TlsHandshake, Set, ClientPlaces, login,
         request, execution
<1>2. ThreadTypes'
  BY DEF TypeOK, ThreadTypes, Connect, TlsHandshake, Set, ThreadPlaces
<1>. QED BY <1>1, <1>2 DEF TypeOK, Connect, TlsHandshake

LEMMA LoginTypes ==
  ASSUME TypeOK, NEW s \in Sessions, NEW u \in Logins, NEW p \in Passwords, Login(s, u, p)
  PROVE  TypeOK'
<1>1. ClientTypes'
  BY DEF TypeOK, ClientTypes, Login, Set, ClientPlaces, Reading, request, execution
<1>2. c2s' \in [Sessions -> Seq(Messages)]
  <2>1. With("USER", u) \in Messages
    BY WithType, KeywordIsHead DEF Arguments, Keywords
  <2>. QED BY <2>1, PutType DEF TypeOK, Login, Put
<1>. QED BY <1>1, <1>2, ThreadTypesKept DEF TypeOK, Login

(* A choice at the menu.                                                    *)
LEMMA ChooseTypes ==
  ASSUME TypeOK, NEW s \in Sessions, NEW m \in Messages, NEW q \in Queries \cup {None},
         NEW next \in ClientPlaces, Choose(s, m, q, next),
         requests' \in [Sessions -> 0..MaxRequests]
  PROVE  TypeOK'
<1>1. cpc' \in [Sessions -> ClientPlaces] /\ query' \in [Sessions -> Queries \cup {None}]
      /\ typed' \in [Sessions -> Seq(Params)]
  BY DEF TypeOK, ClientTypes, Choose, Set
<1>2. ps' \in [Sessions -> DOMAIN Section]
  BY SectionNames DEF TypeOK, ClientTypes, Choose, Set
<1>3. res' \in [Sessions -> Results]
  BY DEF TypeOK, ClientTypes, Choose, Set, Results, NoResult, Arguments
<1>4. ClientTypes'
  BY <1>1, <1>2, <1>3 DEF TypeOK, ClientTypes, Choose, login
<1>5. c2s' \in [Sessions -> Seq(Messages)]
  BY PutType DEF TypeOK, Choose, Put
<1>6. ran' \in [Sessions -> Runs \cup {None}]
  BY DEF TypeOK, Choose, Set
<1>. QED BY <1>4, <1>5, <1>6, ThreadTypesKept DEF TypeOK, Choose

LEMMA RequestsTypes ==
  ASSUME TypeOK, NEW s \in Sessions,
         \/ List(s) \/ Quit(s) \/ \E q \in Queries : Exec(s, q)
  PROVE  TypeOK'
<1>1. CASE List(s)
  <2>1. Text("LIST") \in Messages /\ "list_begin" \in ClientPlaces
    BY TextType, KeywordIsHead DEF Keywords, ClientPlaces, Reading
  <2>2. requests' \in [Sessions -> 0..MaxRequests]
    BY <1>1, SessionAssumption DEF SessionAssumption, TypeOK, ClientTypes, List, Set
  <2>. QED BY <1>1, <2>1, <2>2, ChooseTypes DEF List
<1>2. CASE Quit(s)
  <2>1. Text("CLOSE") \in Messages /\ "close_reply" \in ClientPlaces
    BY TextType, KeywordIsHead DEF Keywords, ClientPlaces, Reading
  <2>. QED BY <1>2, <2>1, ChooseTypes DEF Quit, TypeOK, ClientTypes
<1>3. ASSUME NEW q \in Queries, Exec(s, q) PROVE TypeOK'
  <2>1. With("EXEC", q) \in Messages /\ "exec" \in ClientPlaces
    BY WithType, KeywordIsHead DEF Keywords, Arguments, ClientPlaces, Reading
  <2>2. requests' \in [Sessions -> 0..MaxRequests]
    BY <1>3, SessionAssumption DEF SessionAssumption, TypeOK, ClientTypes, Exec, Set
  <2>. QED BY <1>3, <2>1, <2>2, ChooseTypes DEF Exec
<1>. QED BY <1>1, <1>2, <1>3

(* The loop of Client::execute.                                             *)
LEMMA RecvMarkTypes ==
  ASSUME TypeOK, NEW s \in Sessions, RecvMark(s) PROVE TypeOK'
<1>1. s2c' \in [Sessions -> Seq(Messages)] /\ Reply(s) \in Messages
  BY ClientReadsTypes DEF RecvMark
<1>2. cpc' \in [Sessions -> ClientPlaces]
  BY DEF TypeOK, ClientTypes, RecvMark, Set, ClientPlaces, Reading
<1>3. ps' \in [Sessions -> DOMAIN Section]
  BY SectionNext DEF TypeOK, ClientTypes, RecvMark, Set
<1>4. res' \in [Sessions -> Results]
  BY ZenonT(60), <1>1 DEF TypeOK, ClientTypes, RecvMark, Results, Messages
<1>. QED BY <1>1, <1>2, <1>3, <1>4, ThreadTypesKept
         DEF TypeOK, ClientTypes, RecvMark, login, request

LEMMA CollectType ==
  ASSUME NEW r \in Results, NEW h \in Heads
  PROVE  /\ [r EXCEPT !.out = Append(@, h)] \in Results
         /\ [r EXCEPT !.err = Append(@, h)] \in Results
<1>1. Append(r.out, h) \in Seq(Heads) /\ Append(r.err, h) \in Seq(Heads)
  BY DEF Results
<1>. QED BY <1>1 DEF Results

LEMMA RecvLineTypes ==
  ASSUME TypeOK, NEW s \in Sessions, RecvLine(s) PROVE TypeOK'
<1>1. s2c' \in [Sessions -> Seq(Messages)] /\ Reply(s) \in Messages
  BY ClientReadsTypes DEF RecvLine
<1>2. cpc' \in [Sessions -> ClientPlaces]
  BY DEF TypeOK, ClientTypes, RecvLine, Set, ClientPlaces, Reading
<1>3. res' \in [Sessions -> Results]
  <2>1. res[s] \in Results /\ Reply(s).head \in Heads
    BY <1>1 DEF TypeOK, ClientTypes, Messages
  <2>2. CASE ps[s] = "out"
    BY <2>1, <2>2, CollectType DEF TypeOK, ClientTypes, RecvLine
  <2>3. CASE ps[s] # "out"
    BY <2>1, <2>3, CollectType DEF TypeOK, ClientTypes, RecvLine
  <2>. QED BY <2>2, <2>3
<1>. QED BY <1>1, <1>2, <1>3, ThreadTypesKept
         DEF TypeOK, ClientTypes, RecvLine, login, request

LEMMA RecvParamTypes ==
  ASSUME TypeOK, NEW s \in Sessions, NEW p \in Params, RecvParam(s, p) PROVE TypeOK'
<1>1. s2c' \in [Sessions -> Seq(Messages)]
  BY ClientReadsTypes DEF RecvParam
<1>2. c2s' \in [Sessions -> Seq(Messages)]
  <2>1. Text(p) \in Messages
    BY TextType DEF Heads
  <2>2. CASE Put(c2s, s, Text(p))
    BY <2>1, <2>2, PutType DEF TypeOK, Put
  <2>3. CASE c2s' = c2s
    BY <2>3 DEF TypeOK
  <2>. QED BY <2>2, <2>3 DEF RecvParam
<1>3. typed' \in [Sessions -> Seq(Params)]
  BY PutType DEF TypeOK, ClientTypes, RecvParam, Set
<1>. QED BY <1>1, <1>2, <1>3, ThreadTypesKept
         DEF TypeOK, ClientTypes, RecvParam, login, execution

(* A thread answers and goes on; the rest of its variables as they are.     *)
LEMMA AnswerTypes ==
  ASSUME TypeOK, NEW s \in Sessions, NEW texts \in Seq(Messages),
         NEW next \in ThreadPlaces, Answer(s, texts, next),
         next \in {"param", "run"} => cmd[s] \in Commands,
         c2s' \in [Sessions -> Seq(Messages)], ran' \in [Sessions -> Runs \cup {None}],
         suser' \in [Sessions -> Users \cup {None}],
         params' \in [Sessions -> Seq(Heads)], listed' \in [Sessions -> 0..MaxListed],
         UNCHANGED <<up, s2c, client, cmd>>
  PROVE  TypeOK'
<1>1. ThreadTypes'
  BY DEF TypeOK, ThreadTypes, Answer, Set
<1>. QED BY <1>1, ClientTypesKept DEF TypeOK

LEMMA TextsType ==
  ASSUME NEW h \in Keywords PROVE <<Text(h)>> \in Seq(Messages)
BY TextType, KeywordIsHead

LEMMA ThrowTypes ==
  ASSUME TypeOK, NEW s \in Sessions, Throw(s), c2s' \in [Sessions -> Seq(Messages)],
         UNCHANGED <<up, s2c, ran, client, suser, cmd, params, listed>>
  PROVE  TypeOK'
BY TextsType, AnswerTypes DEF Throw, Keywords, ThreadPlaces, TypeOK, ThreadTypes

LEMMA ServerLoginTypes ==
  ASSUME TypeOK, NEW s \in Sessions, ServerHello(s) \/ ServerUser(s) \/ ServerPass(s)
  PROVE  TypeOK'
<1>1. c2s' \in [Sessions -> Seq(Messages)]
  BY ServerReadsTypes DEF ServerHello, ServerUser, ServerPass
<1>2. suser' \in [Sessions -> Users \cup {None}]
  BY DEF TypeOK, ThreadTypes, ServerHello, ServerUser, ServerPass, Set
<1>3. UNCHANGED <<up, s2c, ran, client, cmd, params, listed>>
  BY DEF ServerHello, ServerUser, ServerPass
<1>4. ASSUME NEW h \in Keywords, NEW next \in ThreadPlaces \ {"param", "run"},
             Answer(s, <<Text(h)>>, next)
      PROVE  TypeOK'
  BY <1>1, <1>2, <1>3, <1>4, TextsType, AnswerTypes DEF TypeOK, ThreadTypes
<1>5. \/ Answer(s, <<Text("RCFINIT")>>, "user") \/ Answer(s, <<Text("PASS")>>, "pass")
      \/ Answer(s, <<Text("AUTHORIZED")>>, "postauth")
      \/ Answer(s, <<Text("ERROR")>>, "failing")
  BY DEF ServerHello, ServerUser, ServerPass, Throw
<1>6. /\ {"RCFINIT", "PASS", "AUTHORIZED", "ERROR"} \subseteq Keywords
      /\ {"user", "pass", "postauth", "failing"} \subseteq ThreadPlaces \ {"param", "run"}
  BY DEF Keywords, ThreadPlaces, Serving
<1>. QED BY <1>4, <1>5, <1>6

LEMMA ServerListTypes ==
  ASSUME TypeOK, NEW s \in Sessions,
         \/ ServerList(s) \/ ServerListLine(s) \/ ServerListEnd(s)
         \/ ServerClose(s)
  PROVE  TypeOK'
<1>1. c2s' \in [Sessions -> Seq(Messages)]
  BY ServerReadsTypes DEF TypeOK, ServerList, ServerListLine, ServerListEnd,
     ServerClose
<1>2. listed' \in [Sessions -> 0..MaxListed]
  BY SessionAssumption DEF SessionAssumption, TypeOK, ThreadTypes, ServerList,
     ServerListLine, ServerListEnd, ServerClose, Set
<1>3. UNCHANGED <<up, s2c, ran, client, suser, cmd, params>>
  BY DEF ServerList, ServerListLine, ServerListEnd, ServerClose
<1>4. ASSUME NEW h \in Heads, NEW next \in ThreadPlaces \ {"param", "run"},
             Answer(s, <<Text(h)>>, next)
      PROVE  TypeOK'
  <2>1. <<Text(h)>> \in Seq(Messages)
    BY TextType
  <2>. QED BY <1>1, <1>2, <1>3, <1>4, <2>1, AnswerTypes DEF TypeOK, ThreadTypes
<1>5. \/ Answer(s, <<Text("BEGINLIST")>>, "list")
      \/ \E l \in Listable : Answer(s, <<Text(l)>>, "list")
      \/ Answer(s, <<Text("ENDLIST")>>, "postauth")
      \/ Answer(s, <<Text("CLOSE")>>, "closing")
      \/ Answer(s, <<Text("ERROR")>>, "failing")
  BY DEF ServerList, ServerListLine, ServerListEnd, ServerClose,
     Throw, ListLine
<1>6. /\ {"BEGINLIST", "ENDLIST", "CLOSE", "ERROR"} \subseteq Heads
      /\ Listable \subseteq Heads
      /\ {"list", "postauth", "closing", "failing"} \subseteq ThreadPlaces \ {"param", "run"}
  BY DEF Heads, Keywords, ThreadPlaces, Serving
<1>. QED BY <1>4, <1>5, <1>6

LEMMA ServerExecTypes ==
  ASSUME TypeOK, NEW s \in Sessions, ServerExec(s) PROVE TypeOK'
<1>. DEFINE r == Resolve(Path[Received(s).arg], suser[s])
<1>1. Received(s).arg \in Queries /\ c2s' \in [Sessions -> Seq(Messages)]
  BY ServerReadsTypes DEF ServerExec, IsExec
<1>2. /\ r.answer \in {"RUN", "ERROR", "NCERROR"} /\ r.cmd \in Commands \cup {None}
      /\ r.answer = "RUN" => r.cmd \in Commands
  BY <1>1, ResolveType
<1>3. \/ Answer(s, <<Text(r.answer)>>, "postauth")
      \/ r.answer = "RUN" /\ Answer(s, <<Text("PARAM")>>, "param")
      \/ r.answer = "RUN" /\ Answer(s, <<Text("EXECBEGIN")>>, "run")
  BY DEF ServerExec
<1>4. outq' \in [Sessions -> Seq(Messages)]
  <2>1. CASE r.answer = "RUN"
    <3>1. /\ <<Text("PARAM")>> \in Seq(Messages)
          /\ <<Text("EXECBEGIN")>> \in Seq(Messages)
      BY TextsType DEF Keywords
    <3>2. \/ Answer(s, <<Text("PARAM")>>, "param")
          \/ Answer(s, <<Text("EXECBEGIN")>>, "run")
      BY <2>1 DEF ServerExec
    <3>. QED BY <3>1, <3>2 DEF TypeOK, ThreadTypes, Answer, Set
  <2>2. CASE r.answer # "RUN"
    <3>1. r.answer \in Keywords
      BY <1>2, <2>2 DEF Keywords
    <3>2. <<Text(r.answer)>> \in Seq(Messages)
      BY <3>1, TextsType
    <3>3. Answer(s, <<Text(r.answer)>>, "postauth")
      BY <2>2 DEF ServerExec
    <3>. QED BY <3>2, <3>3 DEF TypeOK, ThreadTypes, Answer, Set
  <2>. QED BY <2>1, <2>2
<1>5. spc' \in [Sessions -> ThreadPlaces]
  BY <1>3 DEF TypeOK, ThreadTypes, Answer, Set, ThreadPlaces, Serving
<1>6. cmd' = [cmd EXCEPT ![s] = r.cmd] /\ params' = [params EXCEPT ![s] = <<>>]
  BY DEF ServerExec, Set
<1>7. \A x \in Sessions : spc'[x] \in {"param", "run"} => cmd'[x] \in Commands
  BY <1>2, <1>3, <1>6 DEF TypeOK, ThreadTypes, Answer, Set
<1>8. ThreadTypes'
  BY <1>2, <1>4, <1>5, <1>6, <1>7 DEF TypeOK, ThreadTypes, ServerExec
<1>. QED BY <1>1, <1>8, ClientTypesKept DEF TypeOK, ServerExec

LEMMA ServerParamTypes ==
  ASSUME TypeOK, NEW s \in Sessions, ServerParam(s) PROVE TypeOK'
<1>1. Received(s) \in Messages /\ c2s' \in [Sessions -> Seq(Messages)]
  BY ServerReadsTypes DEF ServerParam
<1>2. params' \in [Sessions -> Seq(Heads)]
  BY <1>1, PutType DEF TypeOK, ThreadTypes, ServerParam, Set, Messages
<1>3. Answer(s, <<Text("PARAM")>>, "param") \/ Answer(s, <<Text("EXECBEGIN")>>, "run")
  BY DEF ServerParam
<1>4. cmd[s] \in Commands
  BY DEF TypeOK, ThreadTypes, ServerParam, ServerReads
<1>5. /\ {"PARAM", "EXECBEGIN"} \subseteq Keywords
      /\ {"param", "run"} \subseteq ThreadPlaces
  BY DEF Keywords, ThreadPlaces, Serving
<1>. QED BY <1>1, <1>2, <1>3, <1>4, <1>5, TextsType, AnswerTypes
         DEF ServerParam, TypeOK, ThreadTypes

LEMMA ServerRunTypes ==
  ASSUME TypeOK, NEW s \in Sessions, NEW o \in Outputs, NEW code \in Codes,
         ServerRun(s, o, code)
  PROVE  TypeOK'
<1>1. [cmd |-> cmd[s], params |-> params[s], out |-> Lines(o[1]),
       err |-> Lines(o[2]), code |-> code] \in Runs
  <2>1. cmd[s] \in Commands /\ params[s] \in Seq(Heads)
    BY DEF TypeOK, ThreadTypes, ServerRun
  <2>2. Lines(o[1]) \in Seq(OutputLines) /\ Lines(o[2]) \in Seq(OutputLines)
    BY OutputsAssumption DEF OutputsAssumption
  <2>. QED BY <2>1, <2>2 DEF Runs
<1>2. ran' \in [Sessions -> Runs \cup {None}]
  BY <1>1 DEF TypeOK, ServerRun, Set
<1>3. "postauth" \in ThreadPlaces
  BY DEF ThreadPlaces, Serving
<1>. QED BY <1>2, <1>3, ReportType, AnswerTypes DEF ServerRun, TypeOK, ThreadTypes

LEMMA ServerWriteTypes ==
  ASSUME TypeOK, NEW s \in Sessions, ServerWrite(s) PROVE TypeOK'
<1>1. /\ outq' \in [Sessions -> Seq(Messages)] /\ Head(outq[s]) \in Messages
  BY TailType DEF TypeOK, ThreadTypes, ServerWrite, Set
<1>2. s2c' \in [Sessions -> Seq(Messages)]
  BY <1>1, PutType DEF TypeOK, ServerWrite, Put
<1>. QED BY <1>1, <1>2, ClientTypesKept DEF TypeOK, ThreadTypes, ServerWrite

(* The failures of the thread, and its end.                                 *)
LEMMA ServerEndTypes ==
  ASSUME TypeOK, NEW s \in Sessions,
         \/ ServerRunThrows(s) \/ ServerWriteThrows(s) \/ ServerReadThrows(s)
         \/ ServerTlsThrows(s) \/ ThreadExit(s)
  PROVE  TypeOK'
<1>1. CASE ServerRunThrows(s) \/ ServerReadThrows(s)
  BY <1>1, ThrowTypes DEF ServerRunThrows, ServerReadThrows, TypeOK
<1>2. CASE ServerWriteThrows(s)
  <2>1. CASE spc[s] = "failing"
    BY <1>2, <2>1, ClientTypesKept, ThreadTypesKept DEF ServerWriteThrows, TypeOK, thread
  <2>. QED BY <1>2, <2>1, ThrowTypes DEF ServerWriteThrows, TypeOK
<1>3. CASE ServerTlsThrows(s)
  BY <1>3, ClientTypesKept, ThreadTypesKept DEF ServerTlsThrows, TypeOK
<1>4. CASE ThreadExit(s)
  <2>1. ThreadTypes'
    BY <1>4 DEF ThreadExit, TypeOK, ThreadTypes, Set, ThreadPlaces, Ended
  <2>. QED BY <1>4, <2>1, ClientTypesKept DEF ThreadExit, TypeOK
<1>. QED BY <1>1, <1>2, <1>3, <1>4

(* TypeOK is an invariant: every queue holds texts of the protocol or lines *)
(* of output, and a thread that runs something has resolved a command.      *)
LEMMA TypesInit == Init => TypeOK
<1>. SUFFICES ASSUME Init PROVE TypeOK
  OBVIOUS
<1>1. ClientTypes
  BY SectionNames, SessionAssumption DEF SessionAssumption, Init, ClientTypes,
     ClientPlaces, Results, NoResult, Arguments
<1>2. ThreadTypes
  BY SessionAssumption DEF SessionAssumption, Init, ThreadTypes, ThreadPlaces, Ended
<1>. QED BY <1>1, <1>2 DEF Init, TypeOK

LEMMA TypesNext == TypeOK /\ [Next]_vars => TypeOK'
<1>. SUFFICES ASSUME TypeOK, [Next]_vars PROVE TypeOK'
  OBVIOUS
<1>1. ASSUME NEW s \in Sessions, ClientStep(s) PROVE TypeOK'
  BY <1>1, ClientMovesTypes, SendHelloTypes, RecvUserReplyTypes, HandshakeTypes,
     RecvMarkTypes, RecvLineTypes, RecvParamTypes DEF ClientStep
<1>2. ASSUME NEW s \in Sessions, UserStep(s) PROVE TypeOK'
  BY <1>2, HandshakeTypes, LoginTypes, RequestsTypes DEF UserStep
<1>3. ASSUME NEW s \in Sessions, ServerStep(s) PROVE TypeOK'
  BY <1>3, ServerLoginTypes, ServerListTypes, ServerExecTypes, ServerParamTypes,
     ServerRunTypes, ServerWriteTypes, ServerEndTypes DEF ServerStep
<1>4. ASSUME NEW s \in Sessions, Lost(s) PROVE TypeOK'
  BY <1>4, ClientMovesTypes
<1>5. CASE UNCHANGED vars
  BY <1>5, ClientTypesKept, ThreadTypesKept DEF vars, TypeOK
<1>. QED BY <1>1, <1>2, <1>3, <1>4, <1>5 DEF Next

(* In every reachable state of any number of sessions the variables have    *)
(* their types: what is in flight are texts of the protocol, and a thread   *)
(* that asks for parameters or runs something has a command.                *)
THEOREM TypeCorrect == Spec => []TypeOK
BY TypesInit, TypesNext, PTL DEF Spec

-----------------------------------------------------------------------------
(***************************************************************************)
(* The login.  LoginInv speaks of one session at a time, so a step is      *)
(* looked at in the session that takes it: what is not Same is what        *)
(* the step changed there.                                                 *)
(***************************************************************************)
SameLogin(s) == cuser'[s] = cuser[s] /\ cpass'[s] = cpass[s]
SameThread(s) == spc'[s] = spc[s] /\ outq'[s] = outq[s] /\ suser'[s] = suser[s]
SameClient(s) == cpc'[s] = cpc[s] /\ SameLogin(s)
Same(s) == /\ SameClient(s) /\ SameThread(s)
           /\ c2s'[s] = c2s[s] /\ s2c'[s] = s2c[s]

LEMMA SameStage ==
  ASSUME NEW s \in Sessions, LoginStage(s), Same(s) PROVE LoginStage(s)'
BY DEF Same, SameClient, SameLogin, SameThread, LoginStage, InStart, InTls, InHello,
       InHelloReply, InLogin, InUserReply, InPassReply, InSession, AfterFailure,
       Quiet, NothingComing, Coming, Refused, SameUser, Proved

LEMMA SingleText ==
  ASSUME NEW m
  PROVE  /\ Head(<<m>>) = m /\ Tail(<<m>>) = <<>> /\ <<m>> # <<>>
         /\ Append(<<>>, m) = <<m>> /\ Len(<<m>>) = 1
OBVIOUS

(* Only the conjunct about the client's place says something.               *)
LEMMA StageAt ==
  ASSUME NEW s \in Sessions,
         \/ cpc'[s] = "tls" /\ InTls(s)'
         \/ cpc'[s] = "hello" /\ InHello(s)'
         \/ cpc'[s] = "hello_reply" /\ InHelloReply(s)'
         \/ cpc'[s] = "login" /\ InLogin(s)'
         \/ cpc'[s] = "user_reply" /\ InUserReply(s)'
         \/ cpc'[s] = "pass_reply" /\ InPassReply(s)'
         \/ cpc'[s] \in LoggedIn /\ InSession(s)'
         \/ cpc'[s] \in {"failed", "vanished"} /\ AfterFailure(s)'
  PROVE  LoginStage(s)'
BY DEF LoginStage, InStart, InTls, InHello, InHelloReply, InLogin, InUserReply,
       InPassReply, InSession, AfterFailure, Quiet, LoggedIn

(* Where the thread is past the login, the user has proved who it is.       *)
LEMMA ServingIsProved ==
  ASSUME TypeOK, NEW s \in Sessions, LoginStage(s), spc[s] \in Serving
  PROVE  /\ Proved(s)
         /\ \/ cpc[s] \in LoggedIn \cup {"failed", "vanished"}
            \/ cpc[s] = "pass_reply" /\ spc[s] = "postauth" /\ c2s[s] = <<>>
<1>1. cpc[s] \in ClientPlaces
  BY DEF TypeOK, ClientTypes
<1>. QED BY <1>1 DEF ClientPlaces, Reading, Gone, LoggedIn, Serving, LoginStage,
     InStart, InTls, InHello, InHelloReply, InLogin, InUserReply, InPassReply,
     InSession, AfterFailure, Refused

(* The client fails, wherever it is.                                        *)
LEMMA FailureStage ==
  ASSUME TypeOK, NEW s \in Sessions, LoginStage(s), cpc'[s] \in {"failed", "vanished"},
         SameLogin(s), SameThread(s), c2s'[s] = c2s[s]
  PROVE  LoginStage(s)'
<1>. SUFFICES AfterFailure(s)'
  BY StageAt
<1>1. CASE cpc[s] \in {"failed", "vanished"}
  BY <1>1 DEF LoginStage, AfterFailure, SameLogin, SameThread, SameUser, Proved
<1>2. CASE cpc[s] \in {"start", "tls", "hello", "login"}
  <2>1. c2s[s] = <<>> /\ spc[s] \in {"none", "tls", "hello", "user"}
    BY <1>2 DEF LoginStage, InStart, InTls, InHello, InLogin, Quiet
  <2>. QED BY <2>1 DEF AfterFailure, SameThread, Serving
<1>3. CASE cpc[s] = "hello_reply"
  <2>1. \/ spc[s] = "hello" /\ c2s[s] = <<Text("RCFINIT")>>
        \/ spc[s] = "user" /\ c2s[s] = <<>>
    BY <1>3 DEF LoginStage, InHelloReply
  <2>. QED BY <2>1 DEF AfterFailure, SameThread, Serving, Text
<1>4. CASE cpc[s] = "user_reply"
  <2>1. \/ spc[s] = "user" /\ c2s[s] = <<With("USER", cuser[s])>>
        \/ spc[s] = "pass" /\ c2s[s] = <<>> /\ SameUser(s)
        \/ spc[s] \in {"failing", "ended"}
    BY <1>4 DEF LoginStage, InUserReply, Refused
  <2>. QED BY <2>1 DEF AfterFailure, SameThread, SameLogin, Serving, With, SameUser
<1>5. CASE cpc[s] = "pass_reply"
  <2>1. \/ spc[s] = "pass" /\ SameUser(s) /\ c2s[s] = <<With("PASS", cpass[s])>>
        \/ spc[s] = "postauth" /\ Proved(s)
        \/ spc[s] \in {"failing", "ended"}
    BY <1>5 DEF LoginStage, InPassReply, Refused
  <2>. QED BY <2>1 DEF AfterFailure, SameThread, SameLogin, Serving, With, SameUser, Proved
<1>6. CASE cpc[s] \in LoggedIn
  BY <1>6 DEF LoginStage, InSession, AfterFailure, SameThread, SameLogin, Serving,
     SameUser, Proved
<1>. QED BY <1>1, <1>2, <1>3, <1>4, <1>5, <1>6 DEF TypeOK, ClientTypes, ClientPlaces,
         Reading, Gone, LoggedIn

(* The client goes on within the session it has logged in to, or fails.     *)
LEMMA SessionStage ==
  ASSUME TypeOK, NEW s \in Sessions, LoginStage(s), cpc[s] \in LoggedIn,
         cpc'[s] \in LoggedIn \cup {"failed", "vanished"}, SameLogin(s), SameThread(s)
  PROVE  LoginStage(s)'
<1>1. Proved(s)' /\ spc'[s] \in Serving \cup {"failing", "ended"}
  BY DEF LoginStage, InSession, SameLogin, SameThread, Proved, SameUser
<1>2. CASE cpc'[s] \in LoggedIn
  BY <1>1, <1>2, StageAt DEF InSession
<1>3. CASE cpc'[s] \in {"failed", "vanished"}
  <2>1. AfterFailure(s)'
    BY <1>1 DEF AfterFailure, Serving
  <2>. QED BY <1>3, <2>1, StageAt
<1>. QED BY <1>2, <1>3

(* The thread goes on past the login, or fails.                             *)
LEMMA ServingStage ==
  ASSUME TypeOK, NEW s \in Sessions, LoginStage(s), spc[s] \in Serving,
         cpc[s] # "pass_reply", spc'[s] \in Serving \cup {"failing", "ended"},
         SameClient(s), suser'[s] = suser[s]
  PROVE  LoginStage(s)'
<1>1. Proved(s)' /\ cpc'[s] \in LoggedIn \cup {"failed", "vanished"}
  BY ServingIsProved DEF SameClient, SameLogin, Proved, SameUser
<1>2. CASE cpc'[s] \in LoggedIn
  BY <1>1, <1>2, StageAt DEF InSession
<1>3. CASE cpc'[s] \in {"failed", "vanished"}
  <2>1. AfterFailure(s)'
    BY <1>1 DEF AfterFailure, Serving
  <2>. QED BY <1>3, <2>1, StageAt
<1>. QED BY <1>1, <1>2, <1>3

(* The thread of a client that has gone fails.                              *)
LEMMA ServerFailsStage ==
  ASSUME TypeOK, NEW s \in Sessions, LoginStage(s), cpc[s] \in Gone,
         SameClient(s), suser'[s] = suser[s], spc'[s] \in {"failing", "ended"}
  PROVE  LoginStage(s)'
<1>1. CASE cpc[s] = "done"
  <2>1. Proved(s)' /\ cpc'[s] \in LoggedIn
    BY <1>1 DEF LoginStage, InSession, LoggedIn, SameClient, SameLogin, Proved, SameUser
  <2>. QED BY <2>1, StageAt DEF InSession
<1>2. CASE cpc[s] \in {"failed", "vanished"}
  <2>1. AfterFailure(s)' /\ cpc'[s] \in {"failed", "vanished"}
    BY <1>2 DEF AfterFailure, Serving, SameClient
  <2>. QED BY <2>1, StageAt
<1>. QED BY <1>1, <1>2 DEF Gone

(* A step is a step of one session.                                         *)
LEMMA OthersSame ==
  ASSUME TypeOK, NEW s \in Sessions, NEW t \in Sessions, t # s,
         ClientStep(s) \/ UserStep(s) \/ ServerStep(s) \/ Lost(s)
  PROVE  Same(t)
<1>. USE DEF TypeOK, ClientTypes, ThreadTypes, Same, SameClient, SameLogin, SameThread,
             Set, Put, ClientReads, ServerReads, Answer, Throw,
             login, request, execution, thread, client
<1>1. CASE \/ TlsHandshake(s) \/ TlsReject(s) \/ SendHello(s) \/ RecvHello(s)
           \/ RecvUserReply(s) \/ RecvPassReply(s) \/ RecvListBegin(s)
           \/ RecvListLine(s) \/ RecvClose(s) \/ ClientReadThrows(s) \/ Lost(s)
  BY SMTT(60), <1>1 DEF TlsHandshake, TlsReject, SendHello, RecvHello, RecvUserReply,
     RecvPassReply, RecvListBegin, RecvListLine, RecvClose, ClientReadThrows, Lost
<1>2. CASE RecvMark(s) \/ RecvLine(s) \/ RecvNotFound(s) \/ RecvUnexpected(s)
  BY <1>2 DEF RecvMark, RecvLine, RecvNotFound, RecvUnexpected
<1>3. ASSUME NEW p \in Params, RecvParam(s, p) PROVE Same(t)
  BY <1>3 DEF RecvParam
<1>4. CASE Connect(s) \/ List(s) \/ Quit(s)
  BY <1>4 DEF Connect, List, Quit, Choose
<1>5. ASSUME NEW u \in Logins, NEW p \in Passwords, Login(s, u, p) PROVE Same(t)
  BY <1>5 DEF Login
<1>6. ASSUME NEW q \in Queries, Exec(s, q) PROVE Same(t)
  BY <1>6 DEF Exec, Choose
<1>7. CASE ServerHello(s) \/ ServerUser(s) \/ ServerPass(s) \/ ServerList(s)
           \/ ServerListLine(s) \/ ServerListEnd(s) \/ ServerClose(s)
  <2>1. CASE ServerHello(s) \/ ServerUser(s) \/ ServerPass(s)
    BY SMTT(60), <2>1 DEF ServerHello, ServerUser, ServerPass
  <2>2. CASE ServerList(s) \/ ServerListLine(s) \/ ServerListEnd(s)
    BY <2>2 DEF ServerList, ServerListLine, ServerListEnd
  <2>3. CASE ServerClose(s)
    BY SMTT(60), <2>3 DEF ServerClose
  <2>. QED BY <1>7, <2>1, <2>2, <2>3
<1>8. CASE ServerExec(s) \/ ServerParam(s)
  <2>1. CASE ServerExec(s)
    BY SMTT(60), <2>1 DEF ServerExec
  <2>2. CASE ServerParam(s)
    BY SMTT(60), <2>2 DEF ServerParam
  <2>. QED BY <1>8, <2>1, <2>2
<1>9. ASSUME NEW o \in Outputs, NEW code \in Codes, ServerRun(s, o, code) PROVE Same(t)
  BY <1>9 DEF ServerRun
<1>10. CASE \/ ServerRunThrows(s) \/ ServerWrite(s) \/ ServerWriteThrows(s)
            \/ ServerReadThrows(s) \/ ServerTlsThrows(s) \/ ThreadExit(s)
  BY <1>10 DEF ServerRunThrows, ServerWrite, ServerWriteThrows, ServerReadThrows,
     ServerTlsThrows, ThreadExit
<1>. HIDE DEF TypeOK, ClientTypes, ThreadTypes, Same
<1>. QED BY <1>1, <1>2, <1>3, <1>4, <1>5, <1>6, <1>7, <1>8, <1>9, <1>10
         DEF ClientStep, UserStep, ServerStep

(* The client's steps, in its own session.                                  *)
LEMMA ConnectStage ==
  ASSUME TypeOK, NEW s \in Sessions, LoginStage(s), Connect(s) \/ TlsHandshake(s)
  PROVE  LoginStage(s)'
<1>1. /\ c2s[s] = <<>> /\ NothingComing(s)
      /\ UNCHANGED <<c2s, s2c, outq>>
  BY DEF Connect, TlsHandshake, LoginStage, InStart, InTls, Quiet
<1>2. CASE Connect(s)
  <2>1. cpc'[s] = "tls" /\ spc'[s] = "tls"
    BY <1>2 DEF Connect, Set, TypeOK, ClientTypes, ThreadTypes
  <2>. QED BY <1>1, <2>1, StageAt DEF InTls, Quiet, NothingComing
<1>3. CASE TlsHandshake(s)
  <2>1. cpc'[s] = "hello" /\ spc'[s] = "hello"
    BY <1>3 DEF TlsHandshake, Set, TypeOK, ClientTypes, ThreadTypes
  <2>. QED BY <1>1, <2>1, StageAt DEF InHello, Quiet, NothingComing
<1>. QED BY <1>2, <1>3

LEMMA SendHelloStage ==
  ASSUME TypeOK, NEW s \in Sessions, LoginStage(s), SendHello(s) PROVE LoginStage(s)'
<1>1. c2s[s] = <<>> /\ NothingComing(s) /\ spc[s] = "hello"
  BY DEF SendHello, LoginStage, InHello, Quiet
<1>2. /\ cpc'[s] = "hello_reply" /\ c2s'[s] = <<Text("RCFINIT")>>
      /\ SameThread(s) /\ s2c' = s2c
  BY <1>1 DEF SendHello, Set, Put, TypeOK, ClientTypes, SameThread, thread
<1>. QED BY <1>1, <1>2, StageAt DEF InHelloReply, NothingComing, SameThread

LEMMA RecvHelloStage ==
  ASSUME TypeOK, NEW s \in Sessions, LoginStage(s), RecvHello(s) PROVE LoginStage(s)'
<1>1. /\ spc[s] = "user" /\ c2s[s] = <<>> /\ s2c[s] = <<Text("RCFINIT")>> /\ outq[s] = <<>>
  BY DEF RecvHello, ClientReads, LoginStage, InHelloReply, NothingComing, Coming
<1>2. Reply(s) = Text("RCFINIT") /\ Tail(s2c[s]) = <<>>
  BY <1>1, SingleText DEF Reply
<1>3. /\ cpc'[s] = "login" /\ s2c'[s] = <<>> /\ SameThread(s) /\ c2s' = c2s
  BY <1>2 DEF RecvHello, ClientReads, Set, Text, TypeOK, ClientTypes, SameThread, thread
<1>. QED BY <1>1, <1>3, StageAt DEF InLogin, Quiet, NothingComing, SameThread

LEMMA LoginStep ==
  ASSUME TypeOK, NEW s \in Sessions, LoginStage(s),
         NEW u \in Logins, NEW p \in Passwords, Login(s, u, p)
  PROVE  LoginStage(s)'
<1>1. c2s[s] = <<>> /\ NothingComing(s) /\ spc[s] = "user"
  BY DEF Login, LoginStage, InLogin, Quiet
<1>2. /\ cpc'[s] = "user_reply" /\ cuser'[s] = u /\ c2s'[s] = <<With("USER", u)>>
      /\ SameThread(s) /\ s2c' = s2c
  BY <1>1 DEF Login, Set, Put, TypeOK, ClientTypes, SameThread, thread
<1>. QED BY <1>1, <1>2, StageAt DEF InUserReply, NothingComing, SameThread

LEMMA RecvUserReplyStage ==
  ASSUME TypeOK, NEW s \in Sessions, LoginStage(s), RecvUserReply(s)
  PROVE  LoginStage(s)'
<1>1. /\ c2s[s] = <<>> /\ outq[s] = <<>>
      /\ \/ s2c[s] = <<Text("PASS")>> /\ spc[s] = "pass" /\ SameUser(s)
         \/ s2c[s] = <<Text("ERROR")>>
  BY DEF RecvUserReply, ClientReads, LoginStage, InUserReply, NothingComing, Coming,
     Refused
<1>2. SameLogin(s) /\ SameThread(s)
  BY DEF RecvUserReply, SameLogin, SameThread, login, thread
<1>3. CASE s2c[s] = <<Text("PASS")>> /\ spc[s] = "pass" /\ SameUser(s)
  <2>1. Reply(s).head = "PASS" /\ Tail(s2c[s]) = <<>>
    BY <1>3, SingleText DEF Reply, Text
  <2>2. /\ cpc'[s] = "pass_reply" /\ s2c'[s] = <<>>
        /\ c2s'[s] = <<With("PASS", cpass[s])>>
    BY <1>1, <2>1 DEF RecvUserReply, ClientReads, Set, Put, TypeOK, ClientTypes
  <2>. QED BY <1>1, <1>2, <1>3, <2>2, StageAt
           DEF InPassReply, NothingComing, SameLogin, SameThread, SameUser
<1>4. CASE s2c[s] = <<Text("ERROR")>>
  <2>1. Reply(s).head = "ERROR"
    BY <1>4, SingleText DEF Reply, Text
  <2>2. cpc'[s] = "failed" /\ c2s' = c2s
    BY <2>1 DEF RecvUserReply, Set, TypeOK, ClientTypes
  <2>. QED BY <1>2, <2>2, FailureStage
<1>. QED BY <1>1, <1>3, <1>4

LEMMA RecvPassReplyStage ==
  ASSUME TypeOK, NEW s \in Sessions, LoginStage(s), RecvPassReply(s)
  PROVE  LoginStage(s)'
<1>1. \/ s2c[s] = <<Text("AUTHORIZED")>> /\ spc[s] = "postauth" /\ Proved(s)
      \/ s2c[s] = <<Text("ERROR")>>
  BY DEF RecvPassReply, ClientReads, LoginStage, InPassReply, NothingComing, Coming,
     Refused
<1>2. SameLogin(s) /\ SameThread(s) /\ c2s' = c2s
  BY DEF RecvPassReply, SameLogin, SameThread, login, thread
<1>3. CASE s2c[s] = <<Text("AUTHORIZED")>> /\ spc[s] = "postauth" /\ Proved(s)
  <2>1. Reply(s).head = "AUTHORIZED"
    BY <1>3, SingleText DEF Reply, Text
  <2>2. cpc'[s] \in LoggedIn
    BY <2>1 DEF RecvPassReply, Set, TypeOK, ClientTypes, LoggedIn
  <2>. QED BY <1>2, <1>3, <2>2, StageAt
           DEF InSession, Serving, SameLogin, SameThread, Proved, SameUser
<1>4. CASE s2c[s] = <<Text("ERROR")>>
  <2>1. Reply(s).head = "ERROR"
    BY <1>4, SingleText DEF Reply, Text
  <2>2. cpc'[s] = "failed"
    BY <2>1 DEF RecvPassReply, Set, TypeOK, ClientTypes
  <2>. QED BY <1>2, <2>2, FailureStage
<1>. QED BY <1>1, <1>3, <1>4

(* Past the login, and when it fails.                                       *)
LEMMA ClientSessionStage ==
  ASSUME TypeOK, NEW s \in Sessions, LoginStage(s),
         \/ List(s) \/ Quit(s) \/ \E q \in Queries : Exec(s, q)
         \/ RecvListBegin(s) \/ RecvListLine(s) \/ RecvClose(s)
         \/ RecvMark(s) \/ RecvLine(s) \/ \E p \in Params : RecvParam(s, p)
         \/ RecvNotFound(s) \/ RecvUnexpected(s)
  PROVE  LoginStage(s)'
<1>1. cpc[s] \in LoggedIn
  BY DEF List, Quit, Exec, Choose, RecvListBegin, RecvListLine, RecvClose, RecvMark,
     RecvLine, RecvParam, RecvNotFound, RecvUnexpected, ClientReads, LoggedIn
<1>2. cpc'[s] \in LoggedIn \cup {"failed", "vanished"}
  <2>1. CASE List(s) \/ Quit(s) \/ \E q \in Queries : Exec(s, q)
    BY <2>1 DEF List, Quit, Exec, Choose, Set, TypeOK, ClientTypes, LoggedIn
  <2>2. CASE RecvListBegin(s) \/ RecvListLine(s) \/ RecvClose(s)
    BY <2>2 DEF RecvListBegin, RecvListLine, RecvClose, Set, TypeOK, ClientTypes,
       LoggedIn
  <2>3. CASE RecvMark(s) \/ RecvLine(s) \/ RecvNotFound(s) \/ RecvUnexpected(s)
    BY <2>3 DEF RecvMark, RecvLine, RecvNotFound, RecvUnexpected, Set, TypeOK,
       ClientTypes, LoggedIn
  <2>4. CASE \E p \in Params : RecvParam(s, p)
    BY <1>1, <2>4 DEF RecvParam
  <2>. QED BY <2>1, <2>2, <2>3, <2>4
<1>3. UNCHANGED <<login, thread>>
  BY DEF List, Quit, Exec, Choose, RecvListBegin, RecvListLine, RecvClose, RecvMark,
     RecvLine, RecvParam, RecvNotFound, RecvUnexpected
<1>4. SameLogin(s) /\ SameThread(s)
  BY <1>3 DEF login, thread, SameLogin, SameThread
<1>. QED BY <1>1, <1>2, <1>4, SessionStage

LEMMA ClientFailsStage ==
  ASSUME TypeOK, NEW s \in Sessions, LoginStage(s),
         TlsReject(s) \/ ClientReadThrows(s) \/ Lost(s)
  PROVE  LoginStage(s)'
<1>1. cpc'[s] \in {"failed", "vanished"} /\ UNCHANGED <<c2s, login, thread>>
  BY DEF TlsReject, ClientReadThrows, Lost, Set, TypeOK, ClientTypes
<1>2. SameLogin(s) /\ SameThread(s) /\ c2s'[s] = c2s[s]
  BY <1>1 DEF login, thread, SameLogin, SameThread
<1>. QED BY <1>1, <1>2, FailureStage

(* The thread's steps.  It reads a name or a password only while its client *)
(* is at the login or has failed.                                           *)
LEMMA ClientKeepsLogin ==
  ASSUME NEW s \in Sessions, UNCHANGED client PROVE SameClient(s)
BY DEF client, login, SameClient, SameLogin

LEMMA ServerHelloStage ==
  ASSUME TypeOK, NEW s \in Sessions, LoginStage(s), ServerHello(s)
  PROVE  LoginStage(s)'
<1>1. /\ spc[s] = "hello" /\ outq[s] = <<>> /\ c2s[s] # <<>>
      /\ c2s'[s] = Tail(c2s[s]) /\ s2c' = s2c /\ SameClient(s) /\ suser' = suser
  BY ClientKeepsLogin DEF ServerHello, ServerReads, TypeOK
<1>2. CASE cpc[s] = "hello_reply"
  <2>1. c2s[s] = <<Text("RCFINIT")>> /\ s2c[s] = <<>>
    BY <1>1, <1>2 DEF LoginStage, InHelloReply, NothingComing
  <2>2. Received(s).head = "RCFINIT" /\ c2s'[s] = <<>>
    BY <1>1, <2>1, SingleText DEF Received, Text
  <2>3. spc'[s] = "user" /\ outq'[s] = <<Text("RCFINIT")>>
    BY <2>2 DEF ServerHello, Answer, Set, TypeOK, ThreadTypes
  <2>. QED BY <1>1, <1>2, <2>1, <2>2, <2>3, StageAt DEF InHelloReply, Coming, SameClient
<1>3. CASE cpc[s] \in {"failed", "vanished"}
  <2>1. spc'[s] \in {"user", "failing"}
    BY DEF ServerHello, Answer, Throw, Set, TypeOK, ThreadTypes
  <2>2. AfterFailure(s)'
    <3>1. \A i \in 1..Len(c2s[s]) :
             /\ c2s[s][i].head = "USER" => c2s[s][i].arg = cuser[s]
             /\ c2s[s][i].head = "PASS" => c2s[s][i].arg = cpass[s]
      BY <1>1, <1>3 DEF LoginStage, AfterFailure
    <3>2. \A i \in 1..Len(c2s'[s]) : i + 1 \in 1..Len(c2s[s]) /\ c2s'[s][i] = c2s[s][i + 1]
      BY <1>1 DEF TypeOK
    <3>. QED BY <1>1, <2>1, <3>1, <3>2 DEF AfterFailure, Serving, SameClient, SameLogin
  <2>. QED BY <1>1, <1>3, <2>2, StageAt DEF SameClient
<1>4. cpc[s] \in {"hello_reply", "failed", "vanished"}
  BY <1>1 DEF TypeOK, ClientTypes, ClientPlaces, Reading, Gone, LoginStage, InStart,
     InTls, InHello, InLogin, InUserReply, InPassReply, InSession, Refused, Quiet,
     LoggedIn, Serving
<1>. QED BY <1>2, <1>3, <1>4

LEMMA ServerUserStage ==
  ASSUME TypeOK, NEW s \in Sessions, LoginStage(s), ServerUser(s)
  PROVE  LoginStage(s)'
<1>1. /\ spc[s] = "user" /\ outq[s] = <<>> /\ c2s[s] # <<>>
      /\ c2s'[s] = Tail(c2s[s]) /\ s2c' = s2c /\ SameClient(s)
  BY ClientKeepsLogin DEF ServerUser, ServerReads, TypeOK
<1>2. \/ /\ Received(s).head = "USER" /\ Received(s).arg \in Users
         /\ suser'[s] = Received(s).arg
         /\ spc'[s] = "pass" /\ outq'[s] = <<Text("PASS")>>
      \/ spc'[s] = "failing" /\ outq'[s] = <<Text("ERROR")>>
  BY DEF ServerUser, Answer, Throw, Set, TypeOK, ThreadTypes
<1>3. CASE cpc[s] = "user_reply"
  <2>1. c2s[s] = <<With("USER", cuser[s])>> /\ s2c[s] = <<>>
    BY <1>1, <1>3 DEF LoginStage, InUserReply, NothingComing, Refused
  <2>2. Received(s).arg = cuser[s] /\ c2s'[s] = <<>>
    BY <1>1, <2>1, SingleText DEF Received, With
  <2>3. InUserReply(s)'
    BY <1>1, <1>2, <2>1, <2>2
       DEF InUserReply, Coming, Refused, SameUser, SameClient, SameLogin
  <2>. QED BY <1>1, <1>3, <2>3, StageAt DEF SameClient
<1>4. CASE cpc[s] \in {"failed", "vanished"}
  <2>1. \A i \in 1..Len(c2s[s]) :
           /\ c2s[s][i].head = "USER" => c2s[s][i].arg = cuser[s]
           /\ c2s[s][i].head = "PASS" => c2s[s][i].arg = cpass[s]
    BY <1>1, <1>4 DEF LoginStage, AfterFailure
  <2>2. \A i \in 1..Len(c2s'[s]) : i + 1 \in 1..Len(c2s[s]) /\ c2s'[s][i] = c2s[s][i + 1]
    BY <1>1 DEF TypeOK
  <2>3. Received(s) = c2s[s][1] /\ 1 \in 1..Len(c2s[s])
    BY <1>1 DEF Received, TypeOK
  <2>4. spc'[s] = "pass" => SameUser(s)'
    BY <1>1, <1>2, <2>1, <2>3 DEF SameUser, SameClient, SameLogin
  <2>5. AfterFailure(s)'
    BY <1>1, <1>2, <2>1, <2>2, <2>4 DEF AfterFailure, Serving, SameClient, SameLogin
  <2>. QED BY <1>1, <1>4, <2>5, StageAt DEF SameClient
<1>5. cpc[s] \in {"user_reply", "failed", "vanished"}
  BY <1>1 DEF TypeOK, ClientTypes, ClientPlaces, Reading, Gone, LoginStage, InStart,
     InTls, InHello, InHelloReply, InLogin, InPassReply, InSession, Refused, Quiet,
     LoggedIn, Serving
<1>. QED BY <1>3, <1>4, <1>5

LEMMA ServerPassStage ==
  ASSUME TypeOK, NEW s \in Sessions, LoginStage(s), ServerPass(s)
  PROVE  LoginStage(s)'
<1>1. /\ spc[s] = "pass" /\ outq[s] = <<>> /\ c2s[s] # <<>>
      /\ c2s'[s] = Tail(c2s[s]) /\ s2c' = s2c /\ SameClient(s) /\ suser' = suser
  BY ClientKeepsLogin DEF ServerPass, ServerReads, TypeOK
<1>2. \/ /\ Received(s).head = "PASS" /\ Received(s).arg = PasswordOf[suser[s]]
         /\ spc'[s] = "postauth" /\ outq'[s] = <<Text("AUTHORIZED")>>
      \/ spc'[s] = "failing" /\ outq'[s] = <<Text("ERROR")>>
  BY DEF ServerPass, Answer, Throw, Set, TypeOK, ThreadTypes
<1>3. CASE cpc[s] = "pass_reply"
  <2>1. c2s[s] = <<With("PASS", cpass[s])>> /\ s2c[s] = <<>> /\ SameUser(s)
    BY <1>1, <1>3 DEF LoginStage, InPassReply, NothingComing, Refused
  <2>2. Received(s).arg = cpass[s] /\ c2s'[s] = <<>>
    BY <1>1, <2>1, SingleText DEF Received, With
  <2>3. InPassReply(s)'
    BY <1>1, <1>2, <2>1, <2>2
       DEF InPassReply, Coming, Refused, Proved, SameUser, SameClient, SameLogin
  <2>. QED BY <1>1, <1>3, <2>3, StageAt DEF SameClient
<1>4. CASE cpc[s] \in {"failed", "vanished"}
  <2>1. SameUser(s) /\ (Received(s).head = "PASS" => Received(s).arg = cpass[s])
    <3>1. Received(s) = c2s[s][1] /\ 1 \in 1..Len(c2s[s])
      BY <1>1 DEF Received, TypeOK
    <3>. QED BY <1>1, <1>4, <3>1 DEF LoginStage, AfterFailure
  <2>2. spc'[s] = "postauth" => Proved(s)'
    BY <1>1, <1>2, <2>1 DEF Proved, SameUser, SameClient, SameLogin
  <2>3. AfterFailure(s)'
    BY <1>1, <1>2, <2>2 DEF AfterFailure, Serving
  <2>. QED BY <1>1, <1>4, <2>3, StageAt DEF SameClient
<1>5. cpc[s] \in {"pass_reply", "failed", "vanished"}
  BY <1>1 DEF TypeOK, ClientTypes, ClientPlaces, Reading, Gone, LoginStage, InStart,
     InTls, InHello, InHelloReply, InLogin, InUserReply, InSession, Refused, Quiet,
     LoggedIn, Serving
<1>. QED BY <1>3, <1>4, <1>5

LEMMA ServingStepsStage ==
  ASSUME TypeOK, NEW s \in Sessions, LoginStage(s),
         \/ ServerList(s) \/ ServerListLine(s) \/ ServerListEnd(s) \/ ServerExec(s)
         \/ ServerParam(s) \/ ServerClose(s) \/ ServerRunThrows(s)
         \/ \E o \in Outputs, code \in Codes : ServerRun(s, o, code)
  PROVE  LoginStage(s)'
<1>1. spc[s] \in Serving /\ (spc[s] = "postauth" => c2s[s] # <<>>)
  BY DEF ServerList, ServerListLine, ServerListEnd, ServerExec, ServerParam,
     ServerClose, ServerRunThrows, ServerRun, ServerReads, Serving
<1>2. spc'[s] \in Serving \cup {"failing", "ended"}
  <2>1. CASE ServerList(s) \/ ServerListLine(s) \/ ServerListEnd(s)
    BY <2>1 DEF ServerList, ServerListLine, ServerListEnd, Answer, Set, Serving,
       TypeOK, ThreadTypes
  <2>2. CASE ServerExec(s) \/ ServerParam(s)
    BY <2>2 DEF ServerExec, ServerParam, Answer, Set, Serving, TypeOK, ThreadTypes
  <2>3. CASE ServerClose(s) \/ ServerRunThrows(s)
    BY <2>3 DEF ServerClose, ServerRunThrows, Throw, Answer, Set,
       Serving, TypeOK, ThreadTypes
  <2>4. CASE \E o \in Outputs, code \in Codes : ServerRun(s, o, code)
    BY <2>4 DEF ServerRun, Answer, Set, Serving, TypeOK, ThreadTypes
  <2>. QED BY <2>1, <2>2, <2>3, <2>4
<1>3. UNCHANGED client /\ suser' = suser
  BY DEF ServerList, ServerListLine, ServerListEnd, ServerExec, ServerParam,
     ServerClose, ServerRunThrows, ServerRun
<1>4. cpc[s] # "pass_reply"
  BY <1>1, ServingIsProved DEF LoggedIn
<1>. QED BY <1>1, <1>2, <1>3, <1>4, ServingStage, ClientKeepsLogin

(* A text on its way to the client stays on its way.                        *)
LEMMA ServerWriteStage ==
  ASSUME TypeOK, NEW s \in Sessions, LoginStage(s), ServerWrite(s)
  PROVE  LoginStage(s)'
<1>1. /\ SameClient(s) /\ c2s' = c2s /\ spc' = spc /\ suser' = suser /\ outq[s] # <<>>
      /\ s2c'[s] = Append(s2c[s], Head(outq[s])) /\ outq'[s] = Tail(outq[s])
  BY ClientKeepsLogin DEF ServerWrite, Put, Set, TypeOK, ThreadTypes
<1>2. ASSUME NEW m, Coming(s, m) PROVE Coming(s, m)'
  <2>1. s2c[s] = <<>> /\ outq[s] = <<m>>
    BY <1>1, <1>2 DEF Coming
  <2>2. s2c'[s] = <<m>> /\ outq'[s] = <<>>
    BY <1>1, <2>1, SingleText
  <2>. QED BY <2>2 DEF Coming
<1>3. ~NothingComing(s)
  BY <1>1 DEF NothingComing
<1>4. CASE cpc[s] \in {"start", "tls", "hello", "login"}
  BY <1>3, <1>4 DEF LoginStage, InStart, InTls, InHello, InLogin, Quiet
<1>5. CASE cpc[s] = "hello_reply"
  <2>1. spc[s] = "user" /\ c2s[s] = <<>> /\ Coming(s, Text("RCFINIT"))
    BY <1>3, <1>5 DEF LoginStage, InHelloReply
  <2>2. Coming(s, Text("RCFINIT"))'
    BY <1>2, <2>1
  <2>. QED BY <1>1, <1>5, <2>1, <2>2, StageAt DEF InHelloReply, SameClient
<1>6. CASE cpc[s] = "user_reply"
  <2>1. \/ spc[s] = "pass" /\ SameUser(s) /\ c2s[s] = <<>> /\ Coming(s, Text("PASS"))
        \/ /\ spc[s] \in {"failing", "ended"} /\ c2s[s] = <<>>
           /\ Coming(s, Text("ERROR"))
    BY <1>3, <1>6 DEF LoginStage, InUserReply, Refused
  <2>2. /\ Coming(s, Text("PASS")) => Coming(s, Text("PASS"))'
        /\ Coming(s, Text("ERROR")) => Coming(s, Text("ERROR"))'
    BY <1>2
  <2>3. InUserReply(s)'
    BY <1>1, <2>1, <2>2 DEF InUserReply, Refused, SameUser, SameClient, SameLogin
  <2>. QED BY <1>1, <1>6, <2>3, StageAt DEF SameClient
<1>7. CASE cpc[s] = "pass_reply"
  <2>1. \/ /\ spc[s] = "postauth" /\ Proved(s) /\ c2s[s] = <<>>
           /\ Coming(s, Text("AUTHORIZED"))
        \/ /\ spc[s] \in {"failing", "ended"} /\ c2s[s] = <<>>
           /\ Coming(s, Text("ERROR"))
    BY <1>3, <1>7 DEF LoginStage, InPassReply, Refused
  <2>2. /\ Coming(s, Text("AUTHORIZED")) => Coming(s, Text("AUTHORIZED"))'
        /\ Coming(s, Text("ERROR")) => Coming(s, Text("ERROR"))'
    BY <1>2
  <2>3. InPassReply(s)'
    BY <1>1, <2>1, <2>2 DEF InPassReply, Refused, Proved, SameUser, SameClient, SameLogin
  <2>. QED BY <1>1, <1>7, <2>3, StageAt DEF SameClient
<1>8. CASE cpc[s] \in LoggedIn
  <2>1. InSession(s)' /\ cpc'[s] = cpc[s]
    BY <1>1, <1>8 DEF LoginStage, InSession, Proved, SameUser, SameClient, SameLogin
  <2>. QED BY <1>8, <2>1, StageAt
<1>9. CASE cpc[s] \in {"failed", "vanished"}
  <2>1. AfterFailure(s)' /\ cpc'[s] = cpc[s]
    BY <1>1, <1>9 DEF LoginStage, AfterFailure, Proved, SameUser, SameClient, SameLogin
  <2>. QED BY <1>9, <2>1, StageAt
<1>. QED BY <1>4, <1>5, <1>6, <1>7, <1>8, <1>9 DEF TypeOK, ClientTypes, ClientPlaces,
         Reading, Gone, LoggedIn

LEMMA ServerEndsStage ==
  ASSUME TypeOK, NEW s \in Sessions, LoginStage(s),
         \/ ServerWriteThrows(s) \/ ServerReadThrows(s) \/ ServerTlsThrows(s)
         \/ ThreadExit(s)
  PROVE  LoginStage(s)'
<1>1. CASE ServerWriteThrows(s) \/ ServerReadThrows(s)
  <2>1. cpc[s] \in Gone /\ SameClient(s) /\ suser' = suser
    BY <1>1, ClientKeepsLogin DEF ServerWriteThrows, ServerReadThrows
  <2>2. spc'[s] = "failing"
    BY <1>1 DEF ServerWriteThrows, ServerReadThrows, Throw, Answer, Set, TypeOK,
       ThreadTypes
  <2>. QED BY <2>1, <2>2, ServerFailsStage
<1>2. CASE ServerTlsThrows(s)
  <2>1. Same(s)
    BY <1>2, ClientKeepsLogin DEF ServerTlsThrows, thread, Same, SameThread
  <2>. QED BY <2>1, SameStage
<1>3. CASE ThreadExit(s)
  <2>1. /\ SameClient(s) /\ UNCHANGED <<c2s, s2c, outq, suser>>
        /\ spc[s] \in {"closing", "failing"} /\ spc'[s] = "ended"
    BY <1>3, ClientKeepsLogin DEF ThreadExit, Set, TypeOK, ThreadTypes
  <2>2. CASE cpc[s] \in LoggedIn
    <3>1. InSession(s)' /\ cpc'[s] = cpc[s]
      BY <2>1, <2>2 DEF LoginStage, InSession, Proved, SameUser, SameClient, SameLogin
    <3>. QED BY <2>2, <3>1, StageAt
  <2>3. CASE cpc[s] \in {"failed", "vanished"}
    <3>1. AfterFailure(s)' /\ cpc'[s] = cpc[s]
      BY <2>1 DEF AfterFailure, Serving, SameClient
    <3>. QED BY <2>3, <3>1, StageAt
  <2>4. CASE cpc[s] \in {"user_reply", "pass_reply"}
    <3>1. Refused(s)
      BY <2>1, <2>4 DEF LoginStage, InUserReply, InPassReply
    <3>2. Refused(s)' /\ cpc'[s] = cpc[s]
      BY <2>1, <3>1 DEF Refused, Coming, SameClient
    <3>. QED BY <2>4, <3>2, StageAt DEF InUserReply, InPassReply
  <2>5. cpc[s] \in LoggedIn \cup {"failed", "vanished", "user_reply", "pass_reply"}
    BY <2>1 DEF TypeOK, ClientTypes, ClientPlaces, Reading, Gone, LoginStage, InStart,
       InTls, InHello, InLogin, InHelloReply, LoggedIn
  <2>. QED BY <2>2, <2>3, <2>4, <2>5
<1>. QED BY <1>1, <1>2, <1>3

(* LoginInv is inductive, ...                                               *)
LEMMA LoginInit == Init => LoginInv
<1>. SUFFICES ASSUME Init, NEW s \in Sessions PROVE LoginStage(s)
  BY TypesInit DEF LoginInv
<1>. QED BY DEF Init, LoginStage, InStart, InTls, InHello, InHelloReply, InLogin,
         InUserReply, InPassReply, InSession, AfterFailure, Quiet, NothingComing,
         LoggedIn

LEMMA LoginNext == LoginInv /\ [Next]_vars => LoginInv'
<1>. SUFFICES ASSUME LoginInv, [Next]_vars, NEW t \in Sessions PROVE LoginStage(t)'
  BY TypesNext DEF LoginInv
<1>. USE DEF LoginInv
<1>1. ASSUME NEW s \in Sessions, ClientStep(s) PROVE LoginStage(t)'
  <2>1. CASE t = s
    BY <1>1, <2>1, ConnectStage, SendHelloStage, RecvHelloStage, RecvUserReplyStage,
       RecvPassReplyStage, ClientSessionStage, ClientFailsStage DEF ClientStep
  <2>. QED BY <1>1, <2>1, OthersSame, SameStage
<1>2. ASSUME NEW s \in Sessions, UserStep(s) PROVE LoginStage(t)'
  <2>1. CASE t = s
    BY <1>2, <2>1, ConnectStage, LoginStep, ClientSessionStage DEF UserStep
  <2>. QED BY <1>2, <2>1, OthersSame, SameStage
<1>3. ASSUME NEW s \in Sessions, ServerStep(s) PROVE LoginStage(t)'
  <2>1. CASE t = s
    BY <1>3, <2>1, ServerHelloStage, ServerUserStage, ServerPassStage,
       ServingStepsStage, ServerWriteStage, ServerEndsStage DEF ServerStep
  <2>. QED BY <1>3, <2>1, OthersSame, SameStage
<1>4. ASSUME NEW s \in Sessions, Lost(s) PROVE LoginStage(t)'
  <2>1. CASE t = s
    BY <1>4, <2>1, ClientFailsStage
  <2>. QED BY <1>4, <2>1, OthersSame, SameStage
<1>5. CASE UNCHANGED vars
  BY <1>5, SameStage DEF vars, client, login, thread, Same, SameClient, SameLogin,
     SameThread
<1>. QED BY <1>1, <1>2, <1>3, <1>4, <1>5 DEF Next

(* ... and it says enough.                                                  *)
LEMMA LoginMeans == LoginInv => Authenticated
<1>. SUFFICES ASSUME LoginInv, NEW s \in Sessions,
                     cpc[s] \in LoggedIn \/ spc[s] \in Serving
              PROVE  Proved(s)
  BY DEF Authenticated, Proved, SameUser
<1>1. CASE cpc[s] \in LoggedIn
  BY <1>1 DEF LoginInv, LoginStage, InSession
<1>2. CASE spc[s] \in Serving
  BY <1>2, ServingIsProved DEF LoginInv
<1>. QED BY <1>1, <1>2

(* How far the two ends of a session are with the login, and what can then  *)
(* be in flight between them, at every moment of every run.                 *)
THEOREM LoginInductive == Spec => []LoginInv
  BY LoginInit, LoginNext, PTL DEF Spec

(* A client gets to its menu, and a thread serves it, only when its user    *)
(* gave a name of the configuration and its password; and the server serves *)
(* it as this user.                                                         *)
THEOREM OnlyAuthenticated == Spec => []Authenticated
  BY LoginInductive, LoginMeans, PTL
=============================================================================

----------------------------- MODULE RCFSession -----------------------------
(***************************************************************************)
(* The RCF protocol: one rcfserver process, with a thread per connection,  *)
(* and the command line clients connected to it.  A session is one client  *)
(* process, its connection and the thread that serves it.                  *)
(*                                                                         *)
(* Messages are whole transmissions (Framing says when that is right), in  *)
(* one FIFO per direction.  A text the program splits into a keyword and   *)
(* an argument ("EXEC " + query) is a record [head, arg]; any other text,  *)
(* such as a line of output, is a head.  The texts a server thread is      *)
(* about to write are in outq: every write_some is a step of its own.      *)
(***************************************************************************)
EXTENDS Catalogue

CONSTANTS Sessions,
          Logins,         \* names typed at the login prompt
          Passwords,      \* passwords typed there
          Queries,        \* queries typed at the menu
          Path,           \* the components of each query
          ShortQueries,   \* queries of one or two characters
          Params,         \* parameters typed; "" when standard input has ended
          Outputs,        \* <<stdout, stderr>> of commands: sequences of lines
          Codes,          \* exit codes of commands
          Listable,       \* lines of LIST answers, see ListLine
          MaxRequests,    \* bound: requests per session
          MaxListed,      \* bound: lines of a LIST answer
          Flaky,          \* sessions whose client or its host may be lost
          RunMayThrow,    \* running a command may fail in the server
          Untrusting      \* sessions whose client rejects the certificate

(* The lines of an output that are not empty: blank ones are not written.   *)
NotBlank(line) == line # ""
Lines(output) == SelectSeq(output, NotBlank)

ASSUME SessionAssumption ==
  /\ Path \in [Queries -> Seq(STRING) \ {<<>>}]
  /\ ShortQueries \subseteq Queries
  /\ PasswordOf \in [Users -> Passwords]
  /\ MaxRequests \in Nat /\ MaxListed \in Nat /\ RunMayThrow \in BOOLEAN
  /\ Flaky \subseteq Sessions /\ Untrusting \subseteq Sessions
  /\ None \notin Logins \cup Passwords \cup Queries \cup Codes

(* The lines commands print; leaving blank ones out adds none.              *)
OutputLines == UNION {{o[i][j] : j \in DOMAIN o[i]} : o \in Outputs, i \in {1, 2}}

ASSUME OutputsAssumption ==
  \A o \in Outputs : \A i \in {1, 2} :
    o[i] \in Seq(STRING) /\ Lines(o[i]) \in Seq(OutputLines)

VARIABLES up,         \* the server process is running
          cpc,        \* where each client is
          spc,        \* where each server thread is
          c2s, s2c,   \* texts in flight to the server, to the client
          outq,       \* texts the thread has yet to write before it goes on
          cuser,      \* the name typed by the client's user
          cpass,      \* and the password
          suser,      \* the name the thread has read (un, then logged_user)
          query,      \* the query of the client's last request
          typed,      \* the parameters typed for it
          ps, res,    \* Client::execute: its ps, the results it has collected
          cmd, params,\* handleExecute: the resolved command, its params
          ran,        \* auxiliary: what the last request ran, None if nothing
          requests,   \* requests made, for the bound
          listed      \* lines sent of the LIST answer, for the bound

login == <<cuser, cpass>>
request == <<query, typed, requests>>
execution == <<ps, res>>
thread == <<spc, outq, suser, cmd, params, listed>>
client == <<cpc, login, request, execution>>
vars == <<up, c2s, s2c, ran, client, thread>>

Text(h) == [head |-> h, arg |-> None]
With(h, a) == [head |-> h, arg |-> a]
NoResult == [out |-> <<>>, err |-> <<>>, code |-> None]

(* A client that has gone: its process has ended, which closes its end of   *)
(* the connection, or its host has vanished, which does not.                *)
Gone == {"done", "failed", "vanished"}
Ended == {"none", "ended"}             \* there is no thread

Init ==
  /\ up = TRUE
  /\ cpc = [s \in Sessions |-> "start"] /\ spc = [s \in Sessions |-> "none"]
  /\ c2s = [s \in Sessions |-> <<>>] /\ s2c = [s \in Sessions |-> <<>>]
  /\ outq = [s \in Sessions |-> <<>>]
  /\ cuser = [s \in Sessions |-> None] /\ cpass = [s \in Sessions |-> None]
  /\ suser = [s \in Sessions |-> None]
  /\ query = [s \in Sessions |-> None] /\ typed = [s \in Sessions |-> <<>>]
  /\ ps = [s \in Sessions |-> "toplevel"]
  /\ res = [s \in Sessions |-> NoResult]
  /\ cmd = [s \in Sessions |-> None] /\ params = [s \in Sessions |-> <<>>]
  /\ ran = [s \in Sessions |-> None]
  /\ requests = [s \in Sessions |-> 0] /\ listed = [s \in Sessions |-> 0]

Set(var, s, value) == var' = [var EXCEPT ![s] = value]
Put(chan, s, text) == chan' = [chan EXCEPT ![s] = Append(@, text)]
-----------------------------------------------------------------------------
(* The client: main of rcfclient and the methods of Client it calls.        *)

(* Client::Client connects and Server::start accepts: a socket, a thread.   *)
Connect(s) ==
  /\ up /\ cpc[s] = "start"
  /\ Set(cpc, s, "tls") /\ Set(spc, s, "tls")
  /\ UNCHANGED <<up, c2s, s2c, ran, login, request, execution,
                 outq, suser, cmd, params, listed>>

(* The TLS handshake of the two ends: accepted by the client, ...           *)
TlsHandshake(s) ==
  /\ up /\ cpc[s] = "tls" /\ s \notin Untrusting
  /\ Set(cpc, s, "hello") /\ Set(spc, s, "hello")
  /\ UNCHANGED <<up, c2s, s2c, ran, login, request, execution,
                 outq, suser, cmd, params, listed>>

(* ... or rejected, or broken by the end of the server.                     *)
TlsReject(s) ==
  /\ cpc[s] = "tls" /\ (s \in Untrusting \/ ~up)
  /\ Set(cpc, s, "failed")
  /\ UNCHANGED <<up, c2s, s2c, ran, login, request, execution, thread>>

(* Client::handshake writes its text.                                       *)
SendHello(s) ==
  /\ cpc[s] = "hello"
  /\ Set(cpc, s, "hello_reply") /\ Put(c2s, s, Text("RCFINIT"))
  /\ UNCHANGED <<up, s2c, ran, login, request, execution, thread>>

(* Client::read: the next text, when one has come.                          *)
Reply(s) == Head(s2c[s])
ClientReads(s, where) ==
  /\ cpc[s] = where /\ s2c[s] # <<>>
  /\ s2c' = [s2c EXCEPT ![s] = Tail(@)]

RecvHello(s) ==
  /\ ClientReads(s, "hello_reply")
  /\ Set(cpc, s, IF Reply(s).head = "RCFINIT" THEN "login" ELSE "failed")
  /\ UNCHANGED <<up, c2s, ran, login, request, execution, thread>>

(* main reads a name and a password; Client::authorize sends the name, ...  *)
Login(s, u, p) ==
  /\ cpc[s] = "login"
  /\ Set(cuser, s, u) /\ Set(cpass, s, p)
  /\ Set(cpc, s, "user_reply") /\ Put(c2s, s, With("USER", u))
  /\ UNCHANGED <<up, s2c, ran, request, execution, thread>>

(* ... then the password when it is asked for.  Any answer that is neither  *)
(* PASS nor an error lets authorize return, and the menu comes.             *)
RecvUserReply(s) ==
  /\ ClientReads(s, "user_reply")
  /\ Set(cpc, s, CASE Reply(s).head = "PASS"  -> "pass_reply"
                   [] Reply(s).head = "ERROR" -> "failed"
                   [] OTHER                   -> "menu")
  /\ IF Reply(s).head = "PASS" THEN Put(c2s, s, With("PASS", cpass[s]))
                               ELSE UNCHANGED c2s
  /\ UNCHANGED <<up, ran, login, request, execution, thread>>

RecvPassReply(s) ==
  /\ ClientReads(s, "pass_reply")
  /\ Set(cpc, s, IF Reply(s).head = "ERROR" THEN "failed" ELSE "menu")
  /\ UNCHANGED <<up, c2s, ran, login, request, execution, thread>>

(* A choice at the menu: l, e with a query, q.                              *)
Choose(s, text, q, next) ==
  /\ cpc[s] = "menu"
  /\ Set(cpc, s, next) /\ Put(c2s, s, text)
  /\ Set(query, s, q) /\ Set(typed, s, <<>>)
  /\ Set(ps, s, "toplevel") /\ Set(res, s, NoResult) /\ Set(ran, s, None)
  /\ UNCHANGED <<up, s2c, login, thread>>

List(s) ==
  /\ requests[s] < MaxRequests /\ Set(requests, s, requests[s] + 1)
  /\ Choose(s, Text("LIST"), None, "list_begin")

Exec(s, q) ==
  /\ requests[s] < MaxRequests /\ Set(requests, s, requests[s] + 1)
  /\ Choose(s, With("EXEC", q), q, "exec")

Quit(s) ==
  /\ Choose(s, Text("CLOSE"), None, "close_reply")
  /\ UNCHANGED requests

(* Client::list.                                                            *)
RecvListBegin(s) ==
  /\ ClientReads(s, "list_begin")
  /\ Set(cpc, s, IF Reply(s).head = "BEGINLIST" THEN "list" ELSE "failed")
  /\ UNCHANGED <<up, c2s, ran, login, request, execution, thread>>

RecvListLine(s) ==
  /\ ClientReads(s, "list")
  /\ Set(cpc, s, IF Reply(s).head = "ENDLIST" THEN "menu" ELSE "list")
  /\ UNCHANGED <<up, c2s, ran, login, request, execution, thread>>

(* Client::close, then main returns.                                        *)
RecvClose(s) ==
  /\ ClientReads(s, "close_reply")
  /\ Set(cpc, s, IF Reply(s).head = "CLOSE" THEN "done" ELSE "failed")
  /\ UNCHANGED <<up, c2s, ran, login, request, execution, thread>>

(* Client::execute: the state that follows ps after a protocol text.        *)
Section ==
  [toplevel |-> [EXECBEGIN |-> "inexec", OUTBEGIN |-> "out", ERRBEGIN |-> "err"],
   inexec   |-> [EXECEND |-> "toplevel"],
   out      |-> [OUTEND |-> "toplevel"],
   err      |-> [ERREND |-> "toplevel"]]

(* Mutant of LoopEnds: the loop ends with the standard output.              *)
LoopEndsEarly(h) == h \in {"OUTEND", "ERREND"}

(* The loop of execute ends on the text ERREND, whatever ps is.             *)
LoopEnds(h) == h = "ERREND"

RecvMark(s) ==
  LET h == Reply(s).head IN
  /\ ClientReads(s, "exec") /\ h \in DOMAIN Section[ps[s]]
  /\ Set(ps, s, Section[ps[s]][h])
  /\ res' = IF h = "EXECEND" THEN [res EXCEPT ![s].code = Reply(s).arg] ELSE res
  /\ Set(cpc, s, IF LoopEnds(h) THEN "menu" ELSE "exec")
  /\ UNCHANGED <<up, c2s, ran, login, request, thread>>

(* A line of the output, collected.                                         *)
RecvLine(s) ==
  LET h == Reply(s).head IN
  /\ ClientReads(s, "exec")
  /\ ps[s] \in {"out", "err"} /\ h \notin DOMAIN Section[ps[s]]
  /\ res' = IF ps[s] = "out" THEN [res EXCEPT ![s].out = Append(@, h)]
                             ELSE [res EXCEPT ![s].err = Append(@, h)]
  /\ Set(cpc, s, IF LoopEnds(h) THEN "menu" ELSE "exec")
  /\ UNCHANGED <<up, c2s, ran, ps, login, request, thread>>

(* paramProvider reads a parameter; writing an empty text sends nothing.    *)
RecvParam(s, p) ==
  /\ ClientReads(s, "exec")
  /\ ps[s] = "toplevel" /\ Reply(s).head = "PARAM"
  /\ Set(typed, s, Append(typed[s], p))
  /\ IF p = "" THEN UNCHANGED c2s ELSE Put(c2s, s, Text(p))
  /\ UNCHANGED <<up, ran, cpc, query, requests, login, execution, thread>>

(* NCERROR: NotFoundException, which main reports before the menu.  It is   *)
(* built from the text that was sent, "EXEC " and the query, from its 8th   *)
(* character on: substr throws out_of_range when there is none.             *)
RecvNotFound(s) ==
  /\ ClientReads(s, "exec")
  /\ ps[s] = "toplevel" /\ Reply(s).head = "NCERROR"
  /\ Set(cpc, s, IF query[s] \in ShortQueries THEN "failed" ELSE "menu")
  /\ UNCHANGED <<up, c2s, ran, login, request, execution, thread>>

(* ERROR or anything else: ProtocolException, and main ends.                *)
RecvUnexpected(s) ==
  LET h == Reply(s).head IN
  /\ ClientReads(s, "exec")
  /\ ps[s] \in {"toplevel", "inexec"} /\ h \notin DOMAIN Section[ps[s]]
  /\ ps[s] = "toplevel" => h \notin {"PARAM", "NCERROR"}
  /\ Set(cpc, s, "failed")
  /\ UNCHANGED <<up, c2s, ran, login, request, execution, thread>>

(* Client::read throws: the server has closed, and nothing is left to read  *)
(* or it was reset because the server left something unread.                *)
Reading == {"hello_reply", "user_reply", "pass_reply", "list_begin", "list",
            "exec", "close_reply"}
ClientReadThrows(s) ==
  /\ cpc[s] \in Reading /\ (~up \/ spc[s] \in Ended)
  /\ s2c[s] = <<>> \/ c2s[s] # <<>>
  /\ Set(cpc, s, "failed")
  /\ UNCHANGED <<up, c2s, s2c, ran, login, request, execution, thread>>

(* The client process is killed, or its host or network goes down.          *)
Lost(s) ==
  /\ s \in Flaky /\ cpc[s] \notin Gone \cup {"start"}
  /\ \E place \in {"failed", "vanished"} : Set(cpc, s, place)
  /\ UNCHANGED <<up, c2s, s2c, ran, login, request, execution, thread>>

(* Steps the client takes without its user.                                 *)
ClientStep(s) ==
  \/ TlsHandshake(s) \/ TlsReject(s)
  \/ SendHello(s) \/ RecvHello(s)
  \/ RecvUserReply(s) \/ RecvPassReply(s)
  \/ RecvListBegin(s) \/ RecvListLine(s) \/ RecvClose(s)
  \/ RecvMark(s) \/ RecvLine(s)
  \/ \E p \in Params : RecvParam(s, p)
  \/ RecvNotFound(s) \/ RecvUnexpected(s)
  \/ ClientReadThrows(s)

UserStep(s) ==
  \/ Connect(s)
  \/ \E u \in Logins, p \in Passwords : Login(s, u, p)
  \/ List(s) \/ Quit(s)
  \/ \E q \in Queries : Exec(s, q)
-----------------------------------------------------------------------------
(* The server thread: Server::handleClient and mainfn.                      *)

(* Server::read: the next text, when the thread has written all it had to.  *)
Received(s) == Head(c2s[s])
ServerReads(s, where) ==
  /\ up /\ spc[s] = where /\ outq[s] = <<>> /\ c2s[s] # <<>>
  /\ c2s' = [c2s EXCEPT ![s] = Tail(@)]

(* The thread writes texts, then goes on at a place.                        *)
Answer(s, texts, next) == Set(outq, s, texts) /\ Set(spc, s, next)

(* An exception reaches mainfn, which calls handleException.                *)
Throw(s) == Answer(s, <<Text("ERROR")>>, "failing")

(* Mutant of ServerHello: the server does not confirm.                      *)
ServerHelloSilent(s) ==
  /\ ServerReads(s, "hello")
  /\ IF Received(s).head = "RCFINIT" THEN Answer(s, <<>>, "user") ELSE Throw(s)
  /\ UNCHANGED <<up, s2c, ran, client, suser, cmd, params, listed>>

(* Server::handshake.                                                       *)
ServerHello(s) ==
  /\ ServerReads(s, "hello")
  /\ IF Received(s).head = "RCFINIT"
     THEN Answer(s, <<Text("RCFINIT")>>, "user") ELSE Throw(s)
  /\ UNCHANGED <<up, s2c, ran, client, suser, cmd, params, listed>>

(* Mutant of ServerUser: any name is taken.                                 *)
ServerUserAny(s) ==
  /\ ServerReads(s, "user")
  /\ IF Received(s).head = "USER"
     THEN Set(suser, s, Received(s).arg) /\ Answer(s, <<Text("PASS")>>, "pass")
     ELSE Throw(s) /\ UNCHANGED suser
  /\ UNCHANGED <<up, s2c, ran, client, cmd, params, listed>>

(* Server::authorize: the name, ...                                         *)
ServerUser(s) ==
  /\ ServerReads(s, "user")
  /\ IF Received(s).head = "USER" /\ Received(s).arg \in Users
     THEN Set(suser, s, Received(s).arg) /\ Answer(s, <<Text("PASS")>>, "pass")
     ELSE Throw(s) /\ UNCHANGED suser
  /\ UNCHANGED <<up, s2c, ran, client, cmd, params, listed>>

(* Mutant of ServerPass: the password is not checked.                       *)
ServerPassAny(s) ==
  /\ ServerReads(s, "pass")
  /\ IF Received(s).head = "PASS"
     THEN Answer(s, <<Text("AUTHORIZED")>>, "postauth") ELSE Throw(s)
  /\ UNCHANGED <<up, s2c, ran, client, suser, cmd, params, listed>>

(* ... and the password, checked by User::checkPassword.                    *)
ServerPass(s) ==
  /\ ServerReads(s, "pass")
  /\ IF Received(s).head = "PASS" /\ Received(s).arg = PasswordOf[suser[s]]
     THEN Answer(s, <<Text("AUTHORIZED")>>, "postauth") ELSE Throw(s)
  /\ UNCHANGED <<up, s2c, ran, client, suser, cmd, params, listed>>

(* handlePostauth, LIST: handleList.                                        *)
ServerList(s) ==
  /\ ServerReads(s, "postauth") /\ Received(s).head = "LIST"
  /\ Answer(s, <<Text("BEGINLIST")>>, "list")
  /\ UNCHANGED <<up, s2c, ran, client, suser, cmd, params, listed>>

(* The lines of the answer: names of commands the user may execute and the  *)
(* brackets of groups.  Which of them come, and in which order, depends on  *)
(* iterators all threads share; here any of them may.                       *)
ListLine(u) ==
  {l \in Listable : \A c \in Commands : NameOf[c] = l => CanExecute(c, u)}

ServerListLine(s) ==
  /\ up /\ spc[s] = "list" /\ outq[s] = <<>> /\ listed[s] < MaxListed
  /\ \E l \in ListLine(suser[s]) : Answer(s, <<Text(l)>>, "list")
  /\ Set(listed, s, listed[s] + 1)
  /\ UNCHANGED <<up, c2s, s2c, ran, client, suser, cmd, params>>

(* Mutant of ServerListEnd: the answer has no end.                          *)
ServerListOpen(s) ==
  /\ up /\ spc[s] = "list" /\ outq[s] = <<>>
  /\ Answer(s, <<>>, "postauth") /\ Set(listed, s, 0)
  /\ UNCHANGED <<up, c2s, s2c, ran, client, suser, cmd, params>>

ServerListEnd(s) ==
  /\ up /\ spc[s] = "list" /\ outq[s] = <<>>
  /\ Answer(s, <<Text("ENDLIST")>>, "postauth") /\ Set(listed, s, 0)
  /\ UNCHANGED <<up, c2s, s2c, ran, client, suser, cmd, params>>

(* handlePostauth, EXEC and a query: handleExecute up to the command's run. *)
IsExec(m) == m.head = "EXEC" /\ m.arg \in Queries

ServerExec(s) ==
  LET r == Resolve(Path[Received(s).arg], suser[s]) IN
  /\ ServerReads(s, "postauth") /\ IsExec(Received(s))
  /\ Set(cmd, s, r.cmd) /\ Set(params, s, <<>>)
  /\ IF r.answer # "RUN" THEN Answer(s, <<Text(r.answer)>>, "postauth")
     ELSE IF NumParams[r.cmd] > 0 THEN Answer(s, <<Text("PARAM")>>, "param")
     ELSE Answer(s, <<Text("EXECBEGIN")>>, "run")
  /\ UNCHANGED <<up, s2c, ran, client, suser, listed>>

(* Mutant of ServerParam: the loop over the parameters ends one early.      *)
ServerParamShort(s) ==
  /\ ServerReads(s, "param")
  /\ Set(params, s, Append(params[s], Received(s).head))
  /\ IF Len(params[s]) + 2 < NumParams[cmd[s]]
     THEN Answer(s, <<Text("PARAM")>>, "param")
     ELSE Answer(s, <<Text("EXECBEGIN")>>, "run")
  /\ UNCHANGED <<up, s2c, ran, client, suser, cmd, listed>>

ServerParam(s) ==
  /\ ServerReads(s, "param")
  /\ Set(params, s, Append(params[s], Received(s).head))
  /\ IF Len(params[s]) + 1 < NumParams[cmd[s]]
     THEN Answer(s, <<Text("PARAM")>>, "param")
     ELSE Answer(s, <<Text("EXECBEGIN")>>, "run")
  /\ UNCHANGED <<up, s2c, ran, client, suser, cmd, listed>>

(* Lines as texts.                                                          *)
Texts(lines) == [i \in DOMAIN lines |-> Text(lines[i])]

(* Mutant of Report: the two outputs are swapped.                           *)
ReportSwapped(o, code) ==
  <<With("EXECEND", code), Text("OUTBEGIN")>> \o Texts(Lines(o[2]))
    \o <<Text("OUTEND"), Text("ERRBEGIN")>> \o Texts(Lines(o[1]))
    \o <<Text("ERREND")>>

(* What the thread writes when the command has ended.                       *)
Report(o, code) ==
  <<With("EXECEND", code), Text("OUTBEGIN")>> \o Texts(Lines(o[1]))
    \o <<Text("OUTEND"), Text("ERRBEGIN")>> \o Texts(Lines(o[2]))
    \o <<Text("ERREND")>>

(* Mutant of ServerRun: the command is run again after its report.          *)
ServerRunAgain(s, o, code) ==
  /\ up /\ spc[s] = "run" /\ outq[s] = <<>>
  /\ Answer(s, Report(o, code), "run")
  /\ Set(ran, s, [cmd |-> cmd[s], params |-> params[s], out |-> Lines(o[1]),
                  err |-> Lines(o[2]), code |-> code])
  /\ UNCHANGED <<up, c2s, s2c, client, suser, cmd, params, listed>>

(* Command::execute returns, ...                                            *)
ServerRun(s, o, code) ==
  /\ up /\ spc[s] = "run" /\ outq[s] = <<>>
  /\ Answer(s, Report(o, code), "postauth")
  /\ Set(ran, s, [cmd |-> cmd[s], params |-> params[s], out |-> Lines(o[1]),
                  err |-> Lines(o[2]), code |-> code])
  /\ UNCHANGED <<up, c2s, s2c, client, suser, cmd, params, listed>>

(* ... or throws: getExec on a bad template, pipe or fork that fails.       *)
ServerRunThrows(s) ==
  /\ up /\ spc[s] = "run" /\ outq[s] = <<>> /\ RunMayThrow
  /\ Throw(s)
  /\ UNCHANGED <<up, c2s, s2c, ran, client, suser, cmd, params, listed>>

(* handlePostauth, CLOSE: Server::close, and handlePostauth returns; any    *)
(* other text, EXEC without a query included, is a ProtocolException.       *)
ServerClose(s) ==
  /\ ServerReads(s, "postauth")
  /\ Received(s).head # "LIST" /\ ~IsExec(Received(s))
  /\ IF Received(s).head = "CLOSE"
     THEN Answer(s, <<Text("CLOSE")>>, "closing") ELSE Throw(s)
  /\ UNCHANGED <<up, s2c, ran, client, suser, cmd, params, listed>>

(* Server::write: one text.  Writing to a peer that has gone may succeed    *)
(* or throw; a throw in handleException leaves mainfn, and an exception     *)
(* that leaves a thread's function ends the process.                        *)
ServerWrite(s) ==
  /\ up /\ outq[s] # <<>>
  /\ Put(s2c, s, Head(outq[s])) /\ Set(outq, s, Tail(outq[s]))
  /\ UNCHANGED <<up, c2s, ran, client, spc, suser, cmd, params, listed>>

ServerWriteThrows(s) ==
  /\ up /\ outq[s] # <<>> /\ cpc[s] \in Gone
  /\ IF spc[s] = "failing" THEN up' = FALSE /\ UNCHANGED <<spc, outq>>
                           ELSE Throw(s) /\ UNCHANGED up
  /\ UNCHANGED <<c2s, s2c, ran, client, suser, cmd, params, listed>>

(* Server::read throws when the client has gone.  The end of a process ends *)
(* its connection; of a host that has vanished a thread that reads learns   *)
(* only if a text it wrote before is not confirmed, and never else: the     *)
(* read has no timeout and the socket no keepalive.                         *)
ServerReadThrows(s) ==
  /\ up /\ outq[s] = <<>> /\ cpc[s] \in Gone
  /\ spc[s] \in {"hello", "user", "pass", "postauth", "param"}
  /\ Throw(s)
  /\ UNCHANGED <<up, c2s, s2c, ran, client, suser, cmd, params, listed>>

(* So does the TLS handshake in handleClient, where nothing catches it.     *)
ServerTlsThrows(s) ==
  /\ up /\ spc[s] = "tls" /\ cpc[s] \in Gone
  /\ up' = FALSE
  /\ UNCHANGED <<c2s, s2c, ran, client, thread>>

(* Mutant of ThreadExit: mainfn does not return from its catch clause.      *)
ThreadExitNormally(s) ==
  /\ up /\ spc[s] = "closing" /\ outq[s] = <<>>
  /\ Set(spc, s, "ended")
  /\ UNCHANGED <<up, c2s, s2c, ran, client, outq, suser, cmd, params, listed>>

(* mainfn returns; handleThreadExit closes the socket.                      *)
ThreadExit(s) ==
  /\ up /\ spc[s] \in {"closing", "failing"} /\ outq[s] = <<>>
  /\ Set(spc, s, "ended")
  /\ UNCHANGED <<up, c2s, s2c, ran, client, outq, suser, cmd, params, listed>>

ServerStep(s) ==
  \/ ServerHello(s) \/ ServerUser(s) \/ ServerPass(s)
  \/ ServerList(s) \/ ServerListLine(s) \/ ServerListEnd(s)
  \/ ServerExec(s) \/ ServerParam(s) \/ ServerClose(s)
  \/ \E o \in Outputs, code \in Codes : ServerRun(s, o, code)
  \/ ServerRunThrows(s)
  \/ ServerWrite(s) \/ ServerWriteThrows(s) \/ ServerReadThrows(s)
  \/ ServerTlsThrows(s) \/ ThreadExit(s)

Next == \E s \in Sessions : ClientStep(s) \/ UserStep(s) \/ ServerStep(s) \/ Lost(s)

(* The thread is in a read of a connection on which there is nothing.       *)
ServerWaits(s) == /\ spc[s] \in {"hello", "user", "pass", "postauth", "param"}
                  /\ outq[s] = <<>> /\ c2s[s] = <<>>

(* It waits for a host that has vanished, in a read or the TLS handshake.   *)
Abandoned(s) == cpc[s] = "vanished" /\ (ServerWaits(s) \/ spc[s] = "tls")

(* Threads and client processes are scheduled; commands end; a parameter    *)
(* that is asked for is typed; the system ends the connections of a process *)
(* that ends.  Nothing obliges a user to choose anything else, and nothing  *)
(* tells a thread that a host has vanished.                                 *)
ThreadRuns(s) == ~Abandoned(s) /\ ServerStep(s)
Fairness == \A s \in Sessions : WF_vars(ClientStep(s)) /\ WF_vars(ThreadRuns(s))

Spec == Init /\ [][Next]_vars /\ Fairness
-----------------------------------------------------------------------------
LoggedIn == {"menu", "exec", "list_begin", "list", "close_reply", "done"}
Serving == {"postauth", "list", "param", "run", "closing"}

(* The texts of the protocol, and what an execution of a command leaves.    *)
Keywords == {"RCFINIT", "USER", "PASS", "AUTHORIZED", "LIST", "BEGINLIST",
             "ENDLIST", "EXEC", "PARAM", "EXECBEGIN", "EXECEND", "OUTBEGIN",
             "OUTEND", "ERRBEGIN", "ERREND", "ERROR", "NCERROR", "CLOSE"}
Heads == Keywords \cup Params \cup Listable \cup OutputLines
Arguments == {None} \cup Logins \cup Passwords \cup Queries \cup Codes
Messages == [head : Heads, arg : Arguments]
Results == [out : Seq(Heads), err : Seq(Heads), code : Arguments]
Runs == [cmd : Commands, params : Seq(Heads),
         out : Seq(OutputLines), err : Seq(OutputLines), code : Codes]

(* None is no run either.                                                   *)
ASSUME NoneAssumption == None \notin Runs

(* The types of the variables; a thread that asks for parameters or is to   *)
(* run something has a command.                                             *)
ClientPlaces == {"start", "tls", "hello", "login", "menu"} \cup Reading \cup Gone
ThreadPlaces == {"tls", "hello", "user", "pass", "failing"} \cup Serving \cup Ended

ClientTypes ==
  /\ cpc \in [Sessions -> ClientPlaces]
  /\ cuser \in [Sessions -> Logins \cup {None}]
  /\ cpass \in [Sessions -> Passwords \cup {None}]
  /\ query \in [Sessions -> Queries \cup {None}]
  /\ typed \in [Sessions -> Seq(Params)]
  /\ requests \in [Sessions -> 0..MaxRequests]
  /\ ps \in [Sessions -> DOMAIN Section]
  /\ res \in [Sessions -> Results]

ThreadTypes ==
  /\ spc \in [Sessions -> ThreadPlaces]
  /\ outq \in [Sessions -> Seq(Messages)]
  /\ suser \in [Sessions -> Users \cup {None}]
  /\ cmd \in [Sessions -> Commands \cup {None}]
  /\ params \in [Sessions -> Seq(Heads)]
  /\ listed \in [Sessions -> 0..MaxListed]
  /\ \A s \in Sessions : spc[s] \in {"param", "run"} => cmd[s] \in Commands

TypeOK ==
  /\ up \in BOOLEAN
  /\ c2s \in [Sessions -> Seq(Messages)] /\ s2c \in [Sessions -> Seq(Messages)]
  /\ ran \in [Sessions -> Runs \cup {None}]
  /\ ClientTypes /\ ThreadTypes

(* A client shows its menu, and a thread serves a session, only after the   *)
(* name and the password typed at the client were found to match, and both  *)
(* ends have the same user: no answer makes authorize return too early.     *)
Authenticated ==
  \A s \in Sessions :
    cpc[s] \in LoggedIn \/ spc[s] \in Serving =>
      /\ cuser[s] \in Users /\ cpass[s] = PasswordOf[cuser[s]]
      /\ suser[s] = cuser[s]

(* A command runs only for a request of this session's client for it, when  *)
(* the user of the client may execute it, and with the parameters typed for *)
(* this request, all of them and in order.                                  *)
RunsWhatWasAsked ==
  \A s \in Sessions : ran[s] # None =>
    /\ query[s] # None
    /\ Resolve(Path[query[s]], cuser[s]) = [answer |-> "RUN", cmd |-> ran[s].cmd]
    /\ ran[s].params = typed[s]
    /\ Len(typed[s]) = NumParams[ran[s].cmd]

(* At the menu the conversation is over: nothing is in flight or still to   *)
(* be written, and the thread waits for a request.                          *)
Synchronised ==
  \A s \in Sessions : cpc[s] = "menu" =>
    /\ c2s[s] = <<>> /\ s2c[s] = <<>> /\ outq[s] = <<>>
    /\ spc[s] = "postauth"

(* A request for a command ends at the menu either with the output and the  *)
(* exit code of its run, or without a run because it has no such command.   *)
ResultFaithful ==
  \A s \in Sessions : cpc[s] = "menu" /\ query[s] # None =>
    IF ran[s] = None
    THEN /\ res[s] = NoResult
         /\ Resolve(Path[query[s]], cuser[s]).answer # "RUN"
    ELSE res[s] = [out |-> ran[s].out, err |-> ran[s].err, code |-> ran[s].code]

(* The two ends never wait for each other.                                  *)
NoMutualWait ==
  \A s \in Sessions :
    ~(up /\ ServerWaits(s) /\ cpc[s] \in Reading /\ s2c[s] = <<>>)

(* A query that leads to no command is reported ("Query could not be        *)
(* resolved!", main), and does not end the client: no answer to a request   *)
(* does but an error of a command that exists (handleException).  This      *)
(* fails for a query whose first group does not exist, which is answered    *)
(* ERROR, and for one that is too short for the report: see the theorem     *)
(* RefusalIsReported.                                                       *)
UnresolvedIsReported ==
  [][\A s \in Sessions :
       cpc[s] = "exec" /\ cpc'[s] = "failed" /\ s2c'[s] # s2c[s]
         => Resolve(Path[query[s]], cuser[s]).answer = "RUN"]_vars

(* No client ends the server.                                               *)
ServerSurvives == up

(* A request comes to an end: an answer and the menu, or the client stops.  *)
RequestsEnd ==
  \A s \in Sessions : cpc[s] \in Reading ~> cpc[s] \notin Reading

(* A session whose client has gone does not keep its thread, whatever the   *)
(* two were doing: the one thing that can keep it is a read, or a TLS       *)
(* handshake, that waits for a host that has vanished, and then for ever.   *)
ThreadsEnd ==
  \A s \in Sessions : cpc[s] \in Gone ~>
    ~up \/ spc[s] \in Ended \/ []Abandoned(s)
-----------------------------------------------------------------------------
(* What the sessions implement.                                             *)
Phase(s) ==
  CASE cpc[s] = "menu" -> "ready"
    [] cpc[s] \in {"exec", "list_begin", "list"} -> "busy"
    [] cpc[s] \in Gone \cup {"close_reply"} -> "gone"
    [] OTHER -> "guest"

Known(s) == Phase(s) \in {"ready", "busy"} \/ requests[s] > 0

Service == INSTANCE RemoteService WITH
  phase <- [s \in Sessions |-> Phase(s)],
  who <- [s \in Sessions |-> IF Known(s) THEN cuser[s] ELSE None],
  asked <- query,
  given <- typed,
  answer <- [s \in Sessions |-> IF cpc[s] = "menu" THEN res[s] ELSE NoResult]

(* RCFSession implements the service, its liveness included.                *)
ImplementsService == Service!Spec
-----------------------------------------------------------------------------
(* The inductive invariant behind Authenticated: how far the two ends of a  *)
(* session are with the login, and what is in flight between them.          *)
NothingComing(s) == s2c[s] = <<>> /\ outq[s] = <<>>
Coming(s, m) == \/ s2c[s] = <<m>> /\ outq[s] = <<>>
                \/ s2c[s] = <<>> /\ outq[s] = <<m>>
Refused(s) == /\ spc[s] \in {"failing", "ended"}
              /\ c2s[s] = <<>> /\ Coming(s, Text("ERROR"))

SameUser(s) == suser[s] = cuser[s] /\ cuser[s] \in Users
Proved(s) == SameUser(s) /\ cpass[s] = PasswordOf[cuser[s]]

Quiet(s, at) == cpc[s] = at => c2s[s] = <<>> /\ NothingComing(s)

InStart(s) == Quiet(s, "start") /\ (cpc[s] = "start" => spc[s] = "none")
InTls(s) == Quiet(s, "tls") /\ (cpc[s] = "tls" => spc[s] = "tls")
InHello(s) == Quiet(s, "hello") /\ (cpc[s] = "hello" => spc[s] = "hello")
InLogin(s) == Quiet(s, "login") /\ (cpc[s] = "login" => spc[s] = "user")

InHelloReply(s) == cpc[s] = "hello_reply" =>
  \/ spc[s] = "hello" /\ c2s[s] = <<Text("RCFINIT")>> /\ NothingComing(s)
  \/ spc[s] = "user" /\ c2s[s] = <<>> /\ Coming(s, Text("RCFINIT"))

InUserReply(s) == cpc[s] = "user_reply" =>
  \/ spc[s] = "user" /\ c2s[s] = <<With("USER", cuser[s])>> /\ NothingComing(s)
  \/ spc[s] = "pass" /\ SameUser(s) /\ c2s[s] = <<>> /\ Coming(s, Text("PASS"))
  \/ Refused(s)

InPassReply(s) == cpc[s] = "pass_reply" =>
  \/ /\ spc[s] = "pass" /\ SameUser(s)
     /\ c2s[s] = <<With("PASS", cpass[s])>> /\ NothingComing(s)
  \/ /\ spc[s] = "postauth" /\ Proved(s)
     /\ c2s[s] = <<>> /\ Coming(s, Text("AUTHORIZED"))
  \/ Refused(s)

(* The client is past the login: so is the thread.                          *)
InSession(s) == cpc[s] \in LoggedIn =>
  Proved(s) /\ spc[s] \in Serving \cup {"failing", "ended"}

(* The client is lost: what it left on its way says who it was.             *)
AfterFailure(s) == cpc[s] \in {"failed", "vanished"} =>
  /\ spc[s] \in {"hello", "user", "pass"} =>
       \A i \in 1..Len(c2s[s]) :
         /\ c2s[s][i].head = "USER" => c2s[s][i].arg = cuser[s]
         /\ c2s[s][i].head = "PASS" => c2s[s][i].arg = cpass[s]
  /\ spc[s] = "pass" => SameUser(s)
  /\ spc[s] \in Serving => Proved(s)

LoginStage(s) ==
  /\ InStart(s) /\ InTls(s) /\ InHello(s) /\ InHelloReply(s) /\ InLogin(s)
  /\ InUserReply(s) /\ InPassReply(s) /\ InSession(s) /\ AfterFailure(s)

LoginInv == TypeOK /\ \A s \in Sessions : LoginStage(s)
=============================================================================

----------------------------- MODULE ExecPipes -----------------------------
(***************************************************************************)
(* ExecuteImpl::unix_execute in several server threads at once: three      *)
(* pipes and a fork for each command, the reading of its standard output   *)
(* to the end, then of its standard error, and waitpid.                    *)
(*                                                                         *)
(* A thread of the server process and the command it started are two       *)
(* actors.  What counts of a command is the order in which it prints and   *)
(* reads: its program is a sequence of operations.  Every character a      *)
(* command prints is told from every other, <<stream, position>>; any of   *)
(* them may be NUL, as in binary output.                                   *)
(*                                                                         *)
(* External: pipes of the operating system, which hold Capacity characters *)
(* and report their end when no process has their write end open, and the  *)
(* shell that runs the command.  The server never writes to "in".          *)
(***************************************************************************)
EXTENDS Naturals, SequencesExt

CONSTANTS
  Threads,     \* server threads, each of which executes one command
  Programs,    \* what commands do: sequences of operations
  NulChars,    \* characters printed that are NUL: <<thread, stream, position>>
  BufferSize,  \* of the buffer in unix_execute, 4096 in the code
  Capacity,    \* of a pipe
  MayFail      \* which system calls may fail: "pipe", "fork", "read"

Streams == {"out", "err"}
Kinds == {"in"} \cup Streams
Operations ==
  [op : Streams, chars : 1..Capacity] \cup {[op |-> "readall", chars |-> 0]}

ASSUME PipesAssumption ==
  /\ BufferSize \in Nat \ {0}
  /\ Capacity \in Nat \ {0}
  /\ Programs \subseteq Seq(Operations)
  /\ NulChars \subseteq Threads \X Streams \X Nat
  /\ MayFail \subseteq {"pipe", "fork", "read"}

VARIABLES
  pc,       \* where the thread is in unix_execute
  open,     \* the ends of pipes that the server process has open
  held,     \* those that the process of a command has open
  pipe,     \* what is in a pipe
  buffer,   \* the local variable
  got,      \* stdout_target and stderr_target
  program,  \* what the command has still to do
  wrote,    \* how much it has printed
  child     \* "none", "runs" or "exited"

vars == <<pc, open, held, pipe, buffer, got, program, wrote, child>>
server == <<pc, open, buffer, got>>
command == <<program, wrote, child>>

Ends == Threads \X Kinds \X {"r", "w"}
EndsOf(t) == {t} \X Kinds \X {"r", "w"}
PipeOf(t, k) == {<<t, k, "r">>, <<t, k, "w">>}
Nul == <<"nul", 0>>
Junk == <<"junk", 0>>
Zeros == [i \in 1..BufferSize |-> Nul]
Closed == {"done", "thrown"}   \* unix_execute has ended and closed its pipes
Ended == Closed \cup {"broken"}

Init ==
  /\ pc = [t \in Threads |-> "idle"]
  /\ open = {}
  /\ held = [t \in Threads |-> {}]
  /\ pipe = [t \in Threads |-> [k \in Streams |-> <<>>]]
  /\ buffer = [t \in Threads |-> Zeros]
  /\ got = [t \in Threads |-> [k \in Streams |-> <<>>]]
  /\ program = [t \in Threads |-> <<>>]
  /\ wrote = [t \in Threads |-> [k \in Streams |-> 0]]
  /\ child = [t \in Threads |-> "none"]

(***************************************************************************)
(* The server thread.                                                      *)
(***************************************************************************)
Goes(t, place) == pc' = [pc EXCEPT ![t] = place]

Start(t, p) ==
  /\ pc[t] = "idle"
  /\ Goes(t, "pipe in")
  /\ program' = [program EXCEPT ![t] = p]
  /\ UNCHANGED <<open, held, pipe, buffer, got, wrote, child>>

\* The k-th pipe: another thread may fork between any two of these calls.
Opening == [in |-> "pipe in", out |-> "pipe out", err |-> "pipe err"]
AfterOpening == [in |-> "pipe out", out |-> "pipe err", err |-> "fork"]

OpenPipe(t, k) ==
  /\ pc[t] = Opening[k]
  /\ open' = open \cup PipeOf(t, k)
  /\ Goes(t, AfterOpening[k])
  /\ UNCHANGED <<held, pipe, buffer, got, command>>

\* A call fails: what was opened for this command is closed again.
OpenFails(t, k) ==
  /\ pc[t] = Opening[k]
  /\ "pipe" \in MayFail
  /\ open' = open \ EndsOf(t)
  /\ Goes(t, "thrown")
  /\ UNCHANGED <<held, pipe, buffer, got, command>>

\* Mutant of ForkFails: the ends of "err" are forgotten.
ForkFailsLeaky(t) ==
  /\ pc[t] = "fork"
  /\ "fork" \in MayFail
  /\ open' = open \ (PipeOf(t, "in") \cup PipeOf(t, "out"))
  /\ Goes(t, "thrown")
  /\ UNCHANGED <<held, pipe, buffer, got, command>>

ForkFails(t) ==
  /\ pc[t] = "fork"
  /\ "fork" \in MayFail
  /\ open' = open \ EndsOf(t)
  /\ Goes(t, "thrown")
  /\ UNCHANGED <<held, pipe, buffer, got, command>>

\* The child has every end that the server process has open, those of other
\* threads too, except for the three it closes before it calls execl.
Fork(t) ==
  /\ pc[t] = "fork"
  /\ held' = [held EXCEPT ![t] =
                open \ {<<t, "in", "w">>, <<t, "out", "r">>, <<t, "err", "r">>}]
  /\ child' = [child EXCEPT ![t] = "runs"]
  /\ Goes(t, "close")
  /\ UNCHANGED <<open, pipe, buffer, got, program, wrote>>

\* Mutant of CloseEnds: the parent keeps its write end of "out".
CloseEndsButOne(t) ==
  /\ pc[t] = "close"
  /\ open' = open \ {<<t, "in", "r">>, <<t, "err", "w">>}
  /\ buffer' = [buffer EXCEPT ![t] = Zeros]
  /\ Goes(t, "out")
  /\ UNCHANGED <<held, pipe, got, command>>

\* Closes the child's ends, sets the buffer to zeros and goes on to read.
CloseEnds(t) ==
  /\ pc[t] = "close"
  /\ open' = open \ {<<t, "in", "r">>, <<t, "out", "w">>, <<t, "err", "w">>}
  /\ buffer' = [buffer EXCEPT ![t] = Zeros]
  /\ Goes(t, "out")
  /\ UNCHANGED <<held, pipe, got, command>>

\* Mutant of Count: one more than the buffer has room for.
CountPastEnd(chars) ==
  IF Len(chars) < BufferSize + 1 THEN Len(chars) ELSE BufferSize + 1

\* How much one read returns of what is in a pipe.
Count(chars) == IF Len(chars) < BufferSize THEN Len(chars) ELSE BufferSize

\* The NULs in a buffer: the zeros it was set to, and those that came from
\* the command.
IsNul(t, c) == c = Nul \/ <<t, c[1], c[2]>> \in NulChars

\* The buffer as a C string: up to its first NUL.  A buffer without any is
\* read past its end, where a NUL may come at once or after something else.
Strings(t, b) ==
  LET nuls == {i \in DOMAIN b : IsNul(t, b[i])}
  IN IF nuls = {}
     THEN {b, Append(b, Junk)}
     ELSE {SubSeq(b, 1, Min(nuls) - 1)}

\* Mutant of Appended: = instead of +=.
AppendedOver(target, string) == string

\* What a target is after += buffer.
Appended(target, string) == target \o string

\* read returns something: it overwrites the beginning of the buffer, which
\* is then added to the target as a string.
Read(t, k) ==
  /\ pc[t] = k
  /\ pipe[t][k] # <<>>
  /\ LET n == Count(pipe[t][k])
         b == SubSeq(pipe[t][k], 1, n) \o SubSeq(buffer[t], n + 1, BufferSize)
     IN /\ pipe' = [pipe EXCEPT ![t][k] = SubSeq(@, n + 1, Len(@))]
        /\ buffer' = [buffer EXCEPT ![t] = b]
        /\ \E string \in Strings(t, b) :
             got' = [got EXCEPT ![t][k] = Appended(@, string)]
  /\ UNCHANGED <<pc, open, held, command>>

\* No process can write into the pipe any more.
NoWriter(t, k) == <<t, k, "w">> \notin open \cup UNION {held[u] : u \in Threads}

\* Mutant of ReadEnd: the buffer keeps the end of the output.
ReadEndKeepsBuffer(t, k) ==
  /\ pc[t] = k
  /\ pipe[t][k] = <<>>
  /\ NoWriter(t, k)
  /\ Goes(t, IF k = "out" THEN "err" ELSE "close all")
  /\ UNCHANGED <<open, held, pipe, buffer, got, command>>

\* Mutant of ReadEnd: an empty pipe is taken for its end.
ReadEndEarly(t, k) ==
  /\ pc[t] = k
  /\ pipe[t][k] = <<>>
  /\ buffer' = IF k = "out" THEN [buffer EXCEPT ![t] = Zeros] ELSE buffer
  /\ Goes(t, IF k = "out" THEN "err" ELSE "close all")
  /\ UNCHANGED <<open, held, pipe, got, command>>

\* read returns 0: the loop ends.  Between the two loops the buffer is set
\* to zeros again.
ReadEnd(t, k) ==
  /\ pc[t] = k
  /\ pipe[t][k] = <<>>
  /\ NoWriter(t, k)
  /\ buffer' = IF k = "out" THEN [buffer EXCEPT ![t] = Zeros] ELSE buffer
  /\ Goes(t, IF k = "out" THEN "err" ELSE "close all")
  /\ UNCHANGED <<open, held, pipe, got, command>>

\* read fails with an error other than EINTR, upon which it is repeated: the
\* exception leaves unix_execute without closing anything.
ReadFails(t, k) ==
  /\ pc[t] = k
  /\ "read" \in MayFail
  /\ Goes(t, "broken")
  /\ UNCHANGED <<open, held, pipe, buffer, got, command>>

CloseAll(t) ==
  /\ pc[t] = "close all"
  /\ open' = open \ {<<t, "out", "r">>, <<t, "err", "r">>, <<t, "in", "w">>}
  /\ Goes(t, "wait")
  /\ UNCHANGED <<held, pipe, buffer, got, command>>

WaitPid(t) ==
  /\ pc[t] = "wait"
  /\ child[t] = "exited"
  /\ Goes(t, "done")
  /\ UNCHANGED <<open, held, pipe, buffer, got, command>>

(***************************************************************************)
(* The command.                                                            *)
(***************************************************************************)
Doing(t, op) == child[t] = "runs" /\ program[t] # <<>> /\ Head(program[t]).op = op
Does(t) == program' = [program EXCEPT ![t] = Tail(@)]
HasRoom(t, k) == Len(pipe[t][k]) + Head(program[t]).chars <= Capacity

\* Printing blocks as long as the pipe is full.
Output(t, k) ==
  /\ Doing(t, k)
  /\ HasRoom(t, k)
  /\ LET n == Head(program[t]).chars
     IN /\ pipe' = [pipe EXCEPT ![t][k] =
                      @ \o [i \in 1..n |-> <<k, wrote[t][k] + i>>]]
        /\ wrote' = [wrote EXCEPT ![t][k] = @ + n]
  /\ Does(t)
  /\ UNCHANGED <<server, held, child>>

\* Reading standard input to its end, as cat or sort without arguments do, has
\* no action: the end does not come (InputStaysOpen).

Exit(t) ==
  /\ child[t] = "runs"
  /\ program[t] = <<>>
  /\ child' = [child EXCEPT ![t] = "exited"]
  /\ held' = [held EXCEPT ![t] = {}]
  /\ UNCHANGED <<server, pipe, program, wrote>>

ThreadStep(t) ==
  \/ \E k \in Kinds : OpenPipe(t, k)
  \/ Fork(t)
  \/ CloseEnds(t)
  \/ \E k \in Streams : Read(t, k)
  \/ \E k \in Streams : ReadEnd(t, k)
  \/ CloseAll(t)
  \/ WaitPid(t)

CallFails(t) ==
  \/ \E k \in Kinds : OpenFails(t, k)
  \/ ForkFails(t)
  \/ \E k \in Streams : ReadFails(t, k)

ChildStep(t) ==
  \/ \E k \in Streams : Output(t, k)
  \/ Exit(t)

Next ==
  \E t \in Threads :
    \/ \E p \in Programs : Start(t, p)
    \/ ThreadStep(t)
    \/ CallFails(t)
    \/ ChildStep(t)

\* Threads and commands are scheduled; nobody has to start a command, and no
\* call has to fail.
Fairness == \A t \in Threads : WF_vars(ThreadStep(t)) /\ WF_vars(ChildStep(t))

Spec == Init /\ [][Next]_vars /\ Fairness

(***************************************************************************)
(* Properties.                                                             *)
(***************************************************************************)

\* Types; in particular a read fits into the buffer and a pipe into itself.
TypeOK ==
  /\ pc \in [Threads -> {"idle", "pipe in", "pipe out", "pipe err", "fork", "close",
                         "out", "err", "close all", "wait"} \cup Ended]
  /\ open \subseteq Ends
  /\ \A t \in Threads :
       /\ held[t] \subseteq Ends
       /\ Len(buffer[t]) = BufferSize
       /\ child[t] \in {"none", "runs", "exited"}
       /\ \A k \in Streams : Len(pipe[t][k]) <= Capacity /\ wrote[t][k] \in Nat

Printed(t, k) == [i \in 1..wrote[t][k] |-> <<k, i>>]
Positions(s, c) == {i \in DOMAIN s : s[i] = c}

\* The characters of an output before its first NUL.
BeforeNul(t, k) ==
  {i \in Nat \ {0} : \A j \in 1..i : <<t, k, j>> \notin NulChars}

\* When unix_execute has returned, everything the command printed on a stream
\* before its first NUL there, and so all of it if it printed none, is in the
\* right string, in the order in which it was printed, whatever else is there.
NothingMissing ==
  \A t \in Threads, k \in Streams :
    pc[t] = "done" =>
      \A i \in 1..wrote[t][k] : i \in BeforeNul(t, k) =>
        /\ Positions(got[t][k], <<k, i>>) # {}
        /\ i > 1 => Min(Positions(got[t][k], <<k, i - 1>>))
                      < Min(Positions(got[t][k], <<k, i>>))

\* Nothing the command printed on one stream is reported as the other one,
\* although both loops read into the same buffer.
StreamsSeparate ==
  \A t \in Threads, k \in Streams : \A i \in DOMAIN got[t][k] :
    got[t][k][i][1] \in {k, "junk"}

\* When unix_execute ends, also because a pipe or a process cannot be had, no
\* end of its pipes stays open in the server, which would run out of
\* descriptors in the long run.  Not when a read fails (lines 63 and 83).
NothingLeftOpen ==
  \A t \in Threads : pc[t] \in Closed => open \cap EndsOf(t) = {}

\* A command that its own server thread keeps from going on for ever: it
\* fills the pipe of its standard error while the thread waits for the end
\* of its output; or any of the two pipes after a read has failed; or it waits
\* for the end of its input, which the thread closes only after the ends of
\* both outputs.
Starved(t) ==
  \/ Doing(t, "err") /\ ~HasRoom(t, "err") /\ pc[t] \in {"close", "out"}
  \/ \E k \in Streams : Doing(t, k) /\ ~HasRoom(t, k) /\ pc[t] = "broken"
  \/ Doing(t, "readall")

\* The standard input of a command does not end as long as the command runs:
\* its thread closes the write end after the ends of both outputs, and they
\* cannot end before, because dup leaves out[1] and err[1] open in the child,
\* whatever it does with its own descriptors.
InputStaysOpen == \A t \in Threads : child[t] = "runs" => ~NoWriter(t, "in")

\* A command that was started ends and its thread gets its output, unless
\* some command is starved, for good.  It may be another one than its own: it
\* may have inherited the write ends of this thread's pipes.
RunsEnd ==
  \A t \in Threads :
    pc[t] = "pipe in" ~> (pc[t] \in Ended \/ \E u \in Threads : []Starved(u))

\* The strings are what the command printed (the brief of ExecuteImpl::execute
\* in ExecuteImpl.h: a "pipe execution method with stdout and stderr capture").
OutputFaithful ==
  \A t \in Threads, k \in Streams :
    pc[t] = "done" => got[t][k] = Printed(t, k)
=============================================================================

-------------------------- MODULE ExecPipes_proofs --------------------------
(***************************************************************************)
(* Proofs about ExecuteImpl::unix_execute, for any number of threads, any  *)
(* commands, and buffers and pipes of any size: what a command printed is  *)
(* all there, in order and not mixed, no pipe stays open, and its input    *)
(* does not end before it does.  Then about Command::getExec, for          *)
(* templates of any length, any texts and any parameters: it gives the     *)
(* template with its placeholders replaced.                                *)
(***************************************************************************)
EXTENDS CommandExecute, Induction

Cells == {"out", "err", "nul", "junk"} \X Nat

(* How much of the output has been read.                                    *)
ReadOf(t, k) == wrote[t][k] - Len(pipe[t][k])

PipeTypes ==
  /\ pc \in [Threads -> {"idle", "pipe in", "pipe out", "pipe err", "fork", "close",
                         "out", "err", "close all", "wait"} \cup Ended]
  /\ open \subseteq Ends
  /\ held \in [Threads -> SUBSET Ends]
  /\ pipe \in [Threads -> [Streams -> Seq(Cells)]]
  /\ buffer \in [Threads -> [1..BufferSize -> Cells]]
  /\ got \in [Threads -> [Streams -> Seq(Cells)]]
  /\ program \in [Threads -> Seq(Operations)]
  /\ wrote \in [Threads -> [Streams -> Nat]]
  /\ child \in [Threads -> {"none", "runs", "exited"}]

(* The ends the server has open, by the place where the thread is.          *)
OpenEndsOf(t) ==
  /\ pc[t] \in {"pipe out", "pipe err", "fork", "close"} => PipeOf(t, "in") \subseteq open
  /\ pc[t] \in {"pipe err", "fork", "close"} => PipeOf(t, "out") \subseteq open
  /\ pc[t] \in {"fork", "close"} => PipeOf(t, "err") \subseteq open
  /\ pc[t] \in {"out", "err", "close all", "broken"} =>
       /\ <<t, "in", "w">> \in open
       /\ open \cap EndsOf(t)
            \subseteq {<<t, "in", "w">>, <<t, "out", "r">>, <<t, "err", "r">>}
  /\ pc[t] \in {"wait", "done", "thrown"} => open \cap EndsOf(t) = {}

OpenEnds == \A t \in Threads : OpenEndsOf(t)

(* A command that runs has the write ends of its pipes, so that neither     *)
(* ends while it does; afterwards nothing is left in a pipe that has ended. *)
Running(t) == child[t] = "runs"
CommandHolds ==
  \A t \in Threads :
    /\ Running(t) =>
         /\ <<t, "out", "w">> \in held[t] /\ <<t, "err", "w">> \in held[t]
         /\ pc[t] \in {"close", "out", "broken"}
    /\ pc[t] \in {"err", "close all", "wait", "done"} => pipe[t]["out"] = <<>>
    /\ pc[t] \in {"close all", "wait", "done"} => pipe[t]["err"] = <<>>

(* The pipe has what was printed and not read yet.                          *)
InPipe ==
  \A t \in Threads, k \in Streams :
    /\ Len(pipe[t][k]) <= wrote[t][k] /\ Len(pipe[t][k]) <= Capacity
    /\ \A i \in 1..Len(pipe[t][k]) : pipe[t][k][i] = <<k, ReadOf(t, k) + i>>

(* The buffer has nothing that was not read from the same pipe.             *)
InBuffer ==
  \A t \in Threads, k \in Streams :
    pc[t] = k => \A i \in 1..BufferSize :
                   \/ buffer[t][i] = Nul
                   \/ \E j \in 1..ReadOf(t, k) : buffer[t][i] = <<k, j>>

(* The string has nothing that was not read but junk, and what was read     *)
(* before the first NUL is there; every such character came, for the first  *)
(* time, after the one before it.                                           *)
Collected ==
  \A t \in Threads, k \in Streams :
    /\ \A i \in 1..Len(got[t][k]) :
         \/ got[t][k][i] = Junk
         \/ \E j \in 1..ReadOf(t, k) : got[t][k][i] = <<k, j>>
    /\ \A j \in 1..ReadOf(t, k) :
         j \in BeforeNul(t, k) => Positions(got[t][k], <<k, j>>) # {}
    /\ \A j \in 2..ReadOf(t, k) : j \in BeforeNul(t, k) =>
         Min(Positions(got[t][k], <<k, j - 1>>)) < Min(Positions(got[t][k], <<k, j>>))

PipesInv ==
  /\ PipeTypes /\ OpenEnds /\ CommandHolds /\ InPipe /\ InBuffer /\ Collected

-----------------------------------------------------------------------------
(***************************************************************************)
(* The control: where a thread is, what is open and what the command has.  *)
(***************************************************************************)

(* A thread's step opens and closes ends of its own pipes only.             *)
LEMMA OthersOpen ==
  ASSUME NEW t \in Threads, NEW u \in Threads, u # t, pc'[u] = pc[u],
         \A e \in Ends \ EndsOf(t) : e \in open' <=> e \in open,
         open \subseteq Ends, open' \subseteq Ends, OpenEndsOf(u)
  PROVE  OpenEndsOf(u)'
<1>1. EndsOf(u) \subseteq Ends \ EndsOf(t)
  BY DEF EndsOf, Ends
<1>2. \A e \in EndsOf(u) : e \in open' <=> e \in open
  BY <1>1
<1>3. open' \cap EndsOf(u) = open \cap EndsOf(u)
  BY <1>2
<1>4. \A k \in Kinds : PipeOf(u, k) \subseteq EndsOf(u)
  BY DEF PipeOf, EndsOf
<1>5. \A k \in Kinds : PipeOf(u, k) \subseteq open => PipeOf(u, k) \subseteq open'
  BY <1>2, <1>4
<1>6. <<u, "in", "w">> \in EndsOf(u) /\ "in" \in Kinds /\ "out" \in Kinds /\ "err" \in Kinds
  BY DEF EndsOf, Kinds, Streams
<1> QED
  BY <1>2, <1>3, <1>5, <1>6 DEF OpenEndsOf

(* The pipes of a thread, end by end.                                       *)
LEMMA EndFacts ==
  ASSUME NEW t \in Threads
  PROVE  /\ \A k \in Kinds : PipeOf(t, k) \subseteq EndsOf(t)
         /\ EndsOf(t) = PipeOf(t, "in") \cup PipeOf(t, "out") \cup PipeOf(t, "err")
         /\ EndsOf(t) \subseteq Ends
         /\ Kinds = {"in", "out", "err"} /\ Streams = {"out", "err"}
  BY DEF PipeOf, EndsOf, Ends, Kinds, Streams

(* Where a step leads and what it does to the ends.                         *)
LEMMA StepControl ==
  ASSUME PipesInv, NEW t \in Threads, NEW place,
         place \in {"idle", "pipe in", "pipe out", "pipe err", "fork", "close", "out",
                    "err", "close all", "wait"} \cup Ended,
         Goes(t, place), open' \subseteq Ends,
         \A e \in Ends \ EndsOf(t) : e \in open' <=> e \in open,
         OpenEndsOf(t)'
  PROVE  /\ pc'[t] = place /\ \A u \in Threads : u # t => pc'[u] = pc[u]
         /\ pc' \in [Threads -> {"idle", "pipe in", "pipe out", "pipe err", "fork",
                                 "close", "out", "err", "close all", "wait"} \cup Ended]
         /\ OpenEnds'
<1>1. /\ pc'[t] = place /\ \A u \in Threads : u # t => pc'[u] = pc[u]
      /\ pc' \in [Threads -> {"idle", "pipe in", "pipe out", "pipe err", "fork",
                              "close", "out", "err", "close all", "wait"} \cup Ended]
  BY DEF Goes, PipesInv, PipeTypes
<1>2. \A u \in Threads : u # t => OpenEndsOf(u)'
  BY <1>1, OthersOpen DEF PipesInv, PipeTypes, OpenEnds
<1> QED
  BY <1>1, <1>2 DEF OpenEnds

(* The data is as before.                                                   *)
LEMMA DataStays ==
  ASSUME PipesInv, UNCHANGED <<pipe, buffer, got, wrote>>,
         \A t \in Threads : pc'[t] \in Streams => pc'[t] = pc[t]
  PROVE  InPipe' /\ InBuffer' /\ Collected'
<1>1. \A t \in Threads, k \in Streams : ReadOf(t, k)' = ReadOf(t, k)
  BY DEF ReadOf
<1>2. InPipe'
  BY <1>1 DEF PipesInv, InPipe
<1>3. InBuffer'
  BY <1>1 DEF PipesInv, InBuffer
<1>4. Collected'
  BY <1>1 DEF PipesInv, Collected
<1> QED
  BY <1>2, <1>3, <1>4

(* Of what a command has, nothing changes, nor does it begin.               *)
LEMMA CommandStays ==
  ASSUME PipesInv, NEW t \in Threads, UNCHANGED <<held, child, pipe>>,
         \A u \in Threads : u # t => pc'[u] = pc[u],
         Running(t) => pc'[t] \in {"close", "out", "broken"},
         pc'[t] \in {"err", "close all", "wait", "done"} => pipe[t]["out"] = <<>>,
         pc'[t] \in {"close all", "wait", "done"} => pipe[t]["err"] = <<>>
  PROVE  CommandHolds'
  BY DEF PipesInv, CommandHolds, Running

LEMMA StartKeeps ==
  ASSUME PipesInv, NEW t \in Threads, NEW p \in Programs, Start(t, p)
  PROVE  PipesInv'
<1>1. /\ pc[t] = "idle" /\ Goes(t, "pipe in")
      /\ program' = [program EXCEPT ![t] = p]
      /\ UNCHANGED <<open, held, pipe, buffer, got, wrote, child>>
  BY DEF Start
<1>2. pc'[t] = "pipe in"
  BY <1>1 DEF Goes, PipesInv, PipeTypes
<1>3. OpenEndsOf(t)'
  BY <1>2 DEF OpenEndsOf
<1>4. /\ \A u \in Threads : u # t => pc'[u] = pc[u]
      /\ pc' \in [Threads -> {"idle", "pipe in", "pipe out", "pipe err", "fork",
                              "close", "out", "err", "close all", "wait"} \cup Ended]
      /\ OpenEnds'
  BY <1>1, <1>3, StepControl DEF PipesInv, PipeTypes
<1>5. ~Running(t)
  BY <1>1 DEF PipesInv, CommandHolds
<1>6. p \in Seq(Operations)
  BY PipesAssumption
<1>7. PipeTypes'
  BY <1>1, <1>4, <1>6 DEF PipesInv, PipeTypes
<1>8. CommandHolds'
  BY <1>1, <1>2, <1>4, <1>5, CommandStays
<1>9. InPipe' /\ InBuffer' /\ Collected'
  <2>1. \A u \in Threads : pc'[u] \in Streams => pc'[u] = pc[u]
    BY <1>2, <1>4 DEF Streams
  <2> QED
    BY <1>1, <2>1, DataStays
<1> QED
  BY <1>4, <1>7, <1>8, <1>9 DEF PipesInv

(* The order in which the pipes are opened.                                 *)
LEMMA OpeningFacts ==
  /\ Opening["in"] = "pipe in" /\ AfterOpening["in"] = "pipe out"
  /\ Opening["out"] = "pipe out" /\ AfterOpening["out"] = "pipe err"
  /\ Opening["err"] = "pipe err" /\ AfterOpening["err"] = "fork"
<1>1. Opening.in = "pipe in" /\ Opening.out = "pipe out" /\ Opening.err = "pipe err"
  BY DEF Opening
<1>2. /\ AfterOpening.in = "pipe out" /\ AfterOpening.out = "pipe err"
      /\ AfterOpening.err = "fork"
  BY DEF AfterOpening
<1> QED
  BY <1>1, <1>2

LEMMA OpenPipeKeeps ==
  ASSUME PipesInv, NEW t \in Threads, NEW k \in Kinds, OpenPipe(t, k)
  PROVE  PipesInv'
<1>1. /\ pc[t] = Opening[k] /\ Goes(t, AfterOpening[k])
      /\ open' = open \cup PipeOf(t, k)
      /\ UNCHANGED <<held, pipe, buffer, got, program, wrote, child>>
  BY DEF OpenPipe, command
<1>2. \/ k = "in" /\ pc[t] = "pipe in" /\ AfterOpening[k] = "pipe out"
      \/ k = "out" /\ pc[t] = "pipe out" /\ AfterOpening[k] = "pipe err"
      \/ k = "err" /\ pc[t] = "pipe err" /\ AfterOpening[k] = "fork"
  <2>1. k = "in" \/ k = "out" \/ k = "err"
    BY EndFacts
  <2> QED
    BY <1>1, <2>1, OpeningFacts
<1>3. pc'[t] = AfterOpening[k]
  BY <1>1 DEF Goes, PipesInv, PipeTypes
<1>4. OpenEndsOf(t)'
  BY <1>1, <1>2, <1>3 DEF OpenEndsOf, PipesInv, OpenEnds
<1>5. open' \subseteq Ends /\ \A e \in Ends \ EndsOf(t) : e \in open' <=> e \in open
  BY <1>1, EndFacts DEF PipesInv, PipeTypes
<1>6. /\ \A u \in Threads : u # t => pc'[u] = pc[u]
      /\ pc' \in [Threads -> {"idle", "pipe in", "pipe out", "pipe err", "fork",
                              "close", "out", "err", "close all", "wait"} \cup Ended]
      /\ OpenEnds'
  BY <1>1, <1>2, <1>4, <1>5, StepControl
<1>7. ~Running(t)
  BY <1>2 DEF PipesInv, CommandHolds
<1>8. PipeTypes'
  BY <1>1, <1>5, <1>6 DEF PipesInv, PipeTypes
<1>9. CommandHolds'
  BY <1>1, <1>2, <1>3, <1>6, <1>7, CommandStays
<1>10. InPipe' /\ InBuffer' /\ Collected'
  <2>1. \A u \in Threads : pc'[u] \in Streams => pc'[u] = pc[u]
    BY <1>2, <1>3, <1>6 DEF Streams
  <2> QED
    BY <1>1, <2>1, DataStays
<1> QED
  BY <1>6, <1>8, <1>9, <1>10 DEF PipesInv

(* A pipe or a process cannot be had.                                       *)
LEMMA FailsKeeps ==
  ASSUME PipesInv, NEW t \in Threads,
         ForkFails(t) \/ \E k \in Kinds : OpenFails(t, k)
  PROVE  PipesInv'
<1>1. /\ pc[t] \in {"pipe in", "pipe out", "pipe err", "fork"} /\ Goes(t, "thrown")
      /\ open' = open \ EndsOf(t)
      /\ UNCHANGED <<held, pipe, buffer, got, program, wrote, child>>
  <2>1. \A k \in Kinds : Opening[k] \in {"pipe in", "pipe out", "pipe err"}
    <3>1. \A k \in Kinds : k = "in" \/ k = "out" \/ k = "err"
      BY EndFacts
    <3> QED
      BY <3>1, OpeningFacts
  <2> QED
    BY <2>1 DEF OpenFails, ForkFails, command
<1>2. pc'[t] = "thrown"
  BY <1>1 DEF Goes, PipesInv, PipeTypes
<1>3. OpenEndsOf(t)'
  BY <1>1, <1>2 DEF OpenEndsOf
<1>4. open' \subseteq Ends /\ \A e \in Ends \ EndsOf(t) : e \in open' <=> e \in open
  BY <1>1 DEF PipesInv, PipeTypes
<1>5. /\ \A u \in Threads : u # t => pc'[u] = pc[u]
      /\ pc' \in [Threads -> {"idle", "pipe in", "pipe out", "pipe err", "fork",
                              "close", "out", "err", "close all", "wait"} \cup Ended]
      /\ OpenEnds'
  BY <1>1, <1>3, <1>4, StepControl DEF Ended, Closed
<1>6. ~Running(t)
  BY <1>1 DEF PipesInv, CommandHolds
<1>7. PipeTypes'
  BY <1>1, <1>4, <1>5 DEF PipesInv, PipeTypes
<1>8. CommandHolds'
  BY <1>1, <1>2, <1>5, <1>6, CommandStays
<1>9. InPipe' /\ InBuffer' /\ Collected'
  <2>1. \A u \in Threads : pc'[u] \in Streams => pc'[u] = pc[u]
    BY <1>2, <1>5 DEF Streams
  <2> QED
    BY <1>1, <2>1, DataStays
<1> QED
  BY <1>5, <1>7, <1>8, <1>9 DEF PipesInv

LEMMA ForkKeeps ==
  ASSUME PipesInv, NEW t \in Threads, Fork(t)
  PROVE  PipesInv'
<1>1. /\ pc[t] = "fork" /\ Goes(t, "close")
      /\ held' = [held EXCEPT ![t] =
                    open \ {<<t, "in", "w">>, <<t, "out", "r">>, <<t, "err", "r">>}]
      /\ child' = [child EXCEPT ![t] = "runs"]
      /\ UNCHANGED <<open, pipe, buffer, got, program, wrote>>
  BY DEF Fork
<1>2. pc'[t] = "close"
  BY <1>1 DEF Goes, PipesInv, PipeTypes
<1>3. OpenEndsOf(t)'
  BY <1>1, <1>2 DEF OpenEndsOf, PipesInv, OpenEnds
<1>4. /\ \A u \in Threads : u # t => pc'[u] = pc[u]
      /\ pc' \in [Threads -> {"idle", "pipe in", "pipe out", "pipe err", "fork",
                              "close", "out", "err", "close all", "wait"} \cup Ended]
      /\ OpenEnds'
  BY <1>1, <1>3, StepControl DEF PipesInv, PipeTypes
<1>5. PipeTypes'
  BY <1>1, <1>4 DEF PipesInv, PipeTypes
<1>6. <<t, "out", "w">> \in held'[t] /\ <<t, "err", "w">> \in held'[t]
  <2>1. <<t, "out", "w">> \in open /\ <<t, "err", "w">> \in open
    BY <1>1 DEF PipesInv, OpenEnds, OpenEndsOf, PipeOf
  <2> QED
    BY <1>1, <2>1 DEF PipesInv, PipeTypes
<1>7. CommandHolds'
  <2>1. \A u \in Threads : u # t => held'[u] = held[u] /\ (Running(u)' <=> Running(u))
    BY <1>1 DEF Running, PipesInv, PipeTypes
  <2> QED
    BY <1>1, <1>2, <1>4, <1>6, <2>1 DEF PipesInv, CommandHolds
<1>8. InPipe' /\ InBuffer' /\ Collected'
  <2>1. \A u \in Threads : pc'[u] \in Streams => pc'[u] = pc[u]
    BY <1>2, <1>4 DEF Streams
  <2> QED
    BY <1>1, <2>1, DataStays
<1> QED
  BY <1>4, <1>5, <1>7, <1>8 DEF PipesInv

(* A read fails, or the descriptors are closed, or the command is waited    *)
(* for.                                                                     *)
LEMMA LeaveKeeps ==
  ASSUME PipesInv, NEW t \in Threads,
         CloseAll(t) \/ WaitPid(t) \/ \E k \in Streams : ReadFails(t, k)
  PROVE  PipesInv'
<1>1. UNCHANGED <<held, pipe, buffer, got, program, wrote, child>>
  BY DEF CloseAll, WaitPid, ReadFails, command
<1>2. PICK place \in {"broken", "wait", "done"} : Goes(t, place)
  BY DEF CloseAll, WaitPid, ReadFails
<1>3. pc'[t] = place
  BY <1>2 DEF Goes, PipesInv, PipeTypes
<1>4. \/ /\ place = "broken" /\ pc[t] \in Streams /\ open' = open
      \/ /\ place = "wait" /\ pc[t] = "close all"
         /\ open' = open \ {<<t, "out", "r">>, <<t, "err", "r">>, <<t, "in", "w">>}
      \/ /\ place = "done" /\ pc[t] = "wait" /\ open' = open
  <2>1. CASE CloseAll(t)
    <3>1. pc'[t] = "wait"
      BY <2>1 DEF CloseAll, Goes, PipesInv, PipeTypes
    <3> QED
      BY <2>1, <3>1, <1>3 DEF CloseAll
  <2>2. CASE WaitPid(t)
    <3>1. pc'[t] = "done"
      BY <2>2 DEF WaitPid, Goes, PipesInv, PipeTypes
    <3> QED
      BY <2>2, <3>1, <1>3 DEF WaitPid
  <2>3. CASE \E k \in Streams : ReadFails(t, k)
    <3>1. pc'[t] = "broken"
      BY <2>3 DEF ReadFails, Goes, PipesInv, PipeTypes
    <3> QED
      BY <2>3, <3>1, <1>3 DEF ReadFails
  <2> QED
    BY <2>1, <2>2, <2>3
<1>5. OpenEndsOf(t)
  BY DEF PipesInv, OpenEnds
<1>6. OpenEndsOf(t)'
  BY <1>3, <1>4, <1>5, EndFacts DEF OpenEndsOf
<1>7. open' \subseteq Ends /\ \A e \in Ends \ EndsOf(t) : e \in open' <=> e \in open
  <2>1. {<<t, "out", "r">>, <<t, "err", "r">>, <<t, "in", "w">>} \subseteq EndsOf(t)
    BY DEF EndsOf, Kinds, Streams
  <2> QED
    BY <1>4, <2>1 DEF PipesInv, PipeTypes
<1>8. /\ \A u \in Threads : u # t => pc'[u] = pc[u]
      /\ pc' \in [Threads -> {"idle", "pipe in", "pipe out", "pipe err", "fork",
                              "close", "out", "err", "close all", "wait"} \cup Ended]
      /\ OpenEnds'
  BY <1>2, <1>6, <1>7, StepControl DEF Ended, Closed
<1>9. PipeTypes'
  BY <1>1, <1>7, <1>8 DEF PipesInv, PipeTypes
<1>10. CommandHolds'
  <2>1. Running(t) => place = "broken"
    BY <1>4 DEF PipesInv, CommandHolds
  <2>2. place \in {"wait", "done"} => pipe[t]["out"] = <<>> /\ pipe[t]["err"] = <<>>
    BY <1>4 DEF PipesInv, CommandHolds
  <2> QED
    BY <1>1, <1>3, <1>8, <2>1, <2>2, CommandStays
<1>11. InPipe' /\ InBuffer' /\ Collected'
  <2>1. \A u \in Threads : pc'[u] \in Streams => pc'[u] = pc[u]
    BY <1>3, <1>8 DEF Streams
  <2> QED
    BY <1>1, <2>1, DataStays
<1> QED
  BY <1>8, <1>9, <1>10, <1>11 DEF PipesInv

-----------------------------------------------------------------------------
(***************************************************************************)
(* The data: pipe, buffer and string.                                      *)
(***************************************************************************)

(* The least of a set of numbers, and when a number is it.                  *)
LEMMA MinFacts ==
  ASSUME NEW S, S \subseteq Nat
  PROVE  /\ S # {} => Min(S) \in S /\ \A y \in S : Min(S) <= y
         /\ \A p \in S : (\A y \in S : p <= y) => Min(S) = p
<1>1. ASSUME S # {}
      PROVE  Min(S) \in S /\ \A y \in S : Min(S) <= y
  <2>1. PICK m \in S : \A y \in S : m <= y
    BY <1>1, LeastNumber
  <2> QED
    BY <2>1 DEF Min
<1>2. ASSUME NEW p \in S, \A y \in S : p <= y
      PROVE  Min(S) = p
  <2>1. Min(S) \in S /\ \A y \in S : Min(S) <= y
    BY <1>1
  <2>2. Min(S) \in Nat /\ p \in Nat /\ Min(S) <= p /\ p <= Min(S)
    BY <1>2, <2>1
  <2> QED
    BY <2>2
<1> QED
  BY <1>1, <1>2

(* A string that the beginning of a buffer is read as has at least that     *)
(* beginning, if it has no NUL, and nothing else but the buffer and junk.   *)
LEMMA StringFacts ==
  ASSUME NEW t \in Threads,
         NEW b \in [1..BufferSize -> Cells], NEW n \in 0..BufferSize,
         \A i \in 1..n : ~IsNul(t, b[i]),
         NEW string \in Strings(t, b)
  PROVE  /\ string \in Seq(Cells)
         /\ Len(string) \in Nat /\ n <= Len(string)
         /\ \A i \in 1..n : string[i] = b[i]
         /\ \A i \in 1..Len(string) :
              \/ string[i] = Junk
              \/ i \in 1..BufferSize /\ string[i] = b[i] /\ ~IsNul(t, b[i])
<1> DEFINE nuls == {i \in 1..BufferSize : IsNul(t, b[i])}
<1>1. BufferSize \in Nat /\ n \in Nat /\ n <= BufferSize
  BY PipesAssumption
<1>2. b \in Seq(Cells) /\ Len(b) = BufferSize /\ DOMAIN b = 1..BufferSize
  BY <1>1
<1>3. CASE nuls = {}
  <2>1. string = b \/ string = Append(b, Junk)
    BY <1>2, <1>3 DEF Strings
  <2>2. CASE string = b
    BY <1>1, <1>2, <1>3, <2>2
  <2>3. CASE string = Append(b, Junk)
    <3>1. Junk \in Cells
      BY DEF Junk, Cells
    <3>2. /\ string \in Seq(Cells) /\ Len(string) = BufferSize + 1
          /\ \A i \in 1..BufferSize : string[i] = b[i]
          /\ string[BufferSize + 1] = Junk
      BY <1>1, <1>2, <2>3, <3>1
    <3>3. \A i \in 1..(BufferSize + 1) : i \in 1..BufferSize \/ i = BufferSize + 1
      BY <1>1
    <3> QED
      BY <1>1, <1>2, <1>3, <3>2, <3>3
  <2> QED
    BY <2>1, <2>2, <2>3
<1>4. CASE nuls # {}
  <2>1. nuls \subseteq Nat
    BY <1>1
  <2> DEFINE m == Min(nuls)
  <2>2. m \in nuls /\ \A y \in nuls : m <= y
    BY <1>4, <2>1, MinFacts
  <2>3. string = SubSeq(b, 1, m - 1)
    BY <1>2, <1>4 DEF Strings
  <2>4. m \in Nat /\ m <= BufferSize /\ IsNul(t, b[m]) /\ 1 <= m
    BY <1>1, <2>2
  <2>5. n < m
    <3>1. ~(m \in 1..n)
      BY <2>4
    <3> QED
      BY <1>1, <2>4, <3>1
  <2> HIDE DEF m
  <2>6. /\ string \in Seq(Cells) /\ Len(string) = m - 1
        /\ \A i \in 1..(m - 1) : string[i] = b[i]
    BY <1>1, <1>2, <2>3, <2>4
  <2>7. \A i \in 1..(m - 1) : i \in 1..BufferSize /\ ~IsNul(t, b[i])
    <3> SUFFICES ASSUME NEW i \in 1..(m - 1)
                 PROVE  i \in 1..BufferSize /\ ~IsNul(t, b[i])
      OBVIOUS
    <3>1. i \in 1..BufferSize /\ i < m /\ i \in Nat
      BY <1>1, <2>4
    <3>2. ~(m <= i)
      BY <2>4, <3>1
    <3> QED
      BY <2>2, <3>1, <3>2
  <2>8. m - 1 \in Nat /\ n <= m - 1 /\ \A i \in 1..n : i \in 1..(m - 1)
    BY <1>1, <2>4, <2>5
  <2> QED
    BY <2>6, <2>7, <2>8
<1> QED
  BY <1>3, <1>4

(* The string grows by what was read, as far as that is in a set of         *)
(* positions that has all those before each of its own.                     *)
LEMMA CollectedGrows ==
  ASSUME NEW k \in Streams, NEW r \in Nat, NEW n \in Nat \ {0},
         NEW K, \A j \in K : j \in Nat /\ \A i \in 1..j : i \in K,
         NEW G \in Seq(Cells), NEW string \in Seq(Cells),
         \A i \in 1..Len(G) : G[i] = Junk \/ \E j \in 1..r : G[i] = <<k, j>>,
         \A j \in 1..r : j \in K => Positions(G, <<k, j>>) # {},
         \A j \in 2..r : j \in K =>
           Min(Positions(G, <<k, j - 1>>)) < Min(Positions(G, <<k, j>>)),
         \A i \in 1..n :
           r + i \in K => i <= Len(string) /\ string[i] = <<k, r + i>>,
         \A i \in 1..Len(string) :
           string[i] = Junk \/ \E j \in 1..(r + n) : string[i] = <<k, j>>
  PROVE  /\ \A i \in 1..Len(G \o string) :
              \/ (G \o string)[i] = Junk
              \/ \E j \in 1..(r + n) : (G \o string)[i] = <<k, j>>
         /\ \A j \in 1..(r + n) :
              j \in K => Positions(G \o string, <<k, j>>) # {}
         /\ \A j \in 2..(r + n) : j \in K => Min(Positions(G \o string, <<k, j - 1>>))
                                               < Min(Positions(G \o string, <<k, j>>))
<1> DEFINE H == G \o string
           g == Len(G)
           s == Len(string)
           First(j) == Min(Positions(H, <<k, j>>))
<1>1. /\ g \in Nat /\ s \in Nat /\ DOMAIN G = 1..g
      /\ H \in Seq(Cells) /\ Len(H) = g + s /\ DOMAIN H = 1..(g + s)
      /\ \A i \in 1..g : H[i] = G[i]
      /\ \A i \in 1..s : H[g + i] = string[i]
  OBVIOUS
<1>2. Junk[1] = "junk" /\ k # "junk"
  BY DEF Junk, Streams
<1> HIDE DEF H, g, s
<1>3. \A i \in 1..(g + s) : i \in 1..g \/ (i - g \in 1..s /\ i = g + (i - g))
  BY <1>1
<1>4. \A j \in 1..r : j \in K => First(j) \in 1..g /\ First(j) = Min(Positions(G, <<k, j>>))
  <2> SUFFICES ASSUME NEW j \in 1..r, j \in K
               PROVE  First(j) \in 1..g /\ First(j) = Min(Positions(G, <<k, j>>))
    OBVIOUS
  <2> DEFINE p == Min(Positions(G, <<k, j>>))
  <2>1. Positions(G, <<k, j>>) \subseteq Nat /\ Positions(G, <<k, j>>) # {}
    <3>1. Positions(G, <<k, j>>) \subseteq Nat
      BY <1>1 DEF Positions
    <3> QED
      BY <3>1
  <2>2. p \in Positions(G, <<k, j>>) /\ \A y \in Positions(G, <<k, j>>) : p <= y
    BY <2>1, MinFacts
  <2>3. p \in 1..g /\ G[p] = <<k, j>>
    BY <1>1, <2>2 DEF Positions
  <2> HIDE DEF p
  <2>4. p \in Positions(H, <<k, j>>) /\ Positions(H, <<k, j>>) \subseteq Nat
    <3>1. p \in 1..(g + s)
      BY <1>1, <2>3
    <3> QED
      BY <1>1, <2>3, <3>1 DEF Positions
  <2>5. ASSUME NEW y \in Positions(H, <<k, j>>)
        PROVE  p <= y
    <3>1. y \in 1..(g + s) /\ H[y] = <<k, j>>
      BY <1>1, <2>5 DEF Positions
    <3>2. CASE y \in 1..g
      <4>1. y \in Positions(G, <<k, j>>)
        BY <1>1, <3>1, <3>2 DEF Positions
      <4> QED
        BY <2>2, <4>1
    <3>3. CASE ~(y \in 1..g)
      BY <1>1, <2>3, <3>1, <3>3
    <3> QED
      BY <3>2, <3>3
  <2>6. Min(Positions(H, <<k, j>>)) = p
    BY <2>4, <2>5, MinFacts
  <2> QED
    BY <2>3, <2>6 DEF p
<1>5. \A j \in 1..n : r + j \in K => First(r + j) = g + j /\ Positions(H, <<k, r + j>>) # {}
  <2> SUFFICES ASSUME NEW j \in 1..n, r + j \in K
               PROVE  First(r + j) = g + j /\ Positions(H, <<k, r + j>>) # {}
    OBVIOUS
  <2>1. j \in 1..s /\ g + j \in 1..(g + s) /\ H[g + j] = <<k, r + j>>
    <3>1. j \in 1..s /\ g + j \in 1..(g + s)
      BY <1>1 DEF s
    <3> QED
      BY <1>1, <3>1
  <2>2. g + j \in Positions(H, <<k, r + j>>) /\ Positions(H, <<k, r + j>>) \subseteq Nat
    BY <1>1, <2>1 DEF Positions
  <2>3. ASSUME NEW y \in Positions(H, <<k, r + j>>)
        PROVE  g + j <= y
    <3>1. y \in 1..(g + s) /\ H[y] = <<k, r + j>>
      BY <1>1, <2>3 DEF Positions
    <3>2. CASE y \in 1..g
      <4>1. G[y] = <<k, r + j>>
        BY <1>1, <3>1, <3>2
      <4>2. G[y] # Junk
        BY <1>2, <4>1 DEF Junk
      <4>3. PICK i \in 1..r : G[y] = <<k, i>>
        BY <3>2, <4>2 DEF g
      <4>4. i = r + j
        BY <4>1, <4>3
      <4> QED
        BY <4>4
    <3>3. CASE y - g \in 1..s /\ y = g + (y - g)
      <4> DEFINE q == y - g
      <4>1. q \in 1..s /\ y = g + q
        BY <3>3
      <4> HIDE DEF q
      <4>2. string[q] = <<k, r + j>>
        BY <1>1, <3>1, <4>1
      <4>3. q \in Nat /\ j \in Nat /\ q >= 1
        BY <1>1, <4>1
      <4>4. CASE q < j
        <5>1. q \in 1..n /\ r + q \in 1..(r + j)
          BY <4>3, <4>4
        <5>2. r + q \in K
          BY <5>1
        <5>3. <<k, r + q>> = <<k, r + j>>
          BY <4>2, <5>1, <5>2
        <5>4. r + q = r + j
          BY <5>3
        <5> QED
          BY <4>3, <4>4, <5>4
      <4>5. CASE ~(q < j)
        BY <1>1, <4>1, <4>3, <4>5
      <4> QED
        BY <4>4, <4>5
    <3> QED
      BY <1>3, <3>1, <3>2, <3>3
  <2>4. Min(Positions(H, <<k, r + j>>)) = g + j
    BY <2>2, <2>3, MinFacts
  <2> QED
    BY <2>2, <2>4
<1>6. \A j \in 1..r : j \in K => Positions(H, <<k, j>>) # {}
  <2> SUFFICES ASSUME NEW j \in 1..r, j \in K
               PROVE  Positions(H, <<k, j>>) # {}
    OBVIOUS
  <2>1. PICK i \in Positions(G, <<k, j>>) : TRUE
    OBVIOUS
  <2>2. i \in 1..g /\ i \in 1..(g + s) /\ H[i] = <<k, j>>
    BY <1>1, <2>1 DEF Positions
  <2> QED
    BY <1>1, <2>2 DEF Positions
<1>7. \A j \in 1..(r + n) : j \in 1..r \/ (j - r \in 1..n /\ j = r + (j - r))
  OBVIOUS
<1>8. \A j \in 1..(r + n) : j \in K => Positions(H, <<k, j>>) # {}
  BY <1>5, <1>6, <1>7
<1>9. ASSUME NEW i \in 1..Len(H)
      PROVE  H[i] = Junk \/ \E j \in 1..(r + n) : H[i] = <<k, j>>
  <2>1. CASE i \in 1..g
    <3>1. H[i] = G[i] /\ (G[i] = Junk \/ \E j \in 1..r : G[i] = <<k, j>>)
      BY <1>1, <2>1 DEF g
    <3>2. \A j \in 1..r : j \in 1..(r + n)
      OBVIOUS
    <3> QED
      BY <3>1, <3>2
  <2>2. CASE i - g \in 1..s /\ i = g + (i - g)
    <3>1. H[i] = string[i - g]
      BY <1>1, <2>2
    <3> QED
      BY <2>2, <3>1 DEF s
  <2> QED
    BY <1>1, <1>3, <1>9, <2>1, <2>2
<1>10. ASSUME NEW j \in 2..(r + n), j \in K
       PROVE  First(j - 1) < First(j)
  <2>5. j - 1 \in K
    <3>1. j - 1 \in 1..j
      BY <1>10
    <3> QED
      BY <1>10, <3>1
  <2>1. CASE j \in 1..r
    <3>1. j \in 2..r /\ j - 1 \in 1..r
      BY <1>10, <2>1
    <3> HIDE DEF First
    <3> QED
      BY <1>4, <1>10, <2>1, <2>5, <3>1
  <2>2. CASE j = r + 1
    <3>1. j - 1 \in 1..r /\ 1 \in 1..n
      BY <1>10, <2>2
    <3>2. First(j - 1) \in 1..g /\ First(j) = g + 1
      BY <1>4, <1>5, <1>10, <2>2, <2>5, <3>1
    <3> HIDE DEF First
    <3> QED
      BY <1>1, <3>2
  <2>3. CASE j - r \in 2..n
    <3> DEFINE q == j - r
    <3>1. q \in 1..n /\ q - 1 \in 1..n /\ j = r + q /\ j - 1 = r + (q - 1) /\ q \in Nat
      BY <2>3
    <3>2. First(r + (q - 1)) = g + (q - 1) /\ First(r + q) = g + q
      BY <1>5, <1>10, <2>5, <3>1
    <3> HIDE DEF First, q
    <3> QED
      BY <1>1, <3>1, <3>2
  <2>4. j \in 1..r \/ j = r + 1 \/ j - r \in 2..n
    BY <1>10
  <2> QED
    BY <2>1, <2>2, <2>3, <2>4
<1> QED
  BY <1>8, <1>9, <1>10 DEF H

(***************************************************************************)
(* The steps that change the data.                                         *)
(***************************************************************************)
LEMMA CloseEndsKeeps ==
  ASSUME PipesInv, NEW t \in Threads, CloseEnds(t)
  PROVE  PipesInv'
<1>1. /\ pc[t] = "close" /\ Goes(t, "out")
      /\ open' = open \ {<<t, "in", "r">>, <<t, "out", "w">>, <<t, "err", "w">>}
      /\ buffer' = [buffer EXCEPT ![t] = Zeros]
      /\ UNCHANGED <<held, pipe, got, program, wrote, child>>
  BY DEF CloseEnds, command
<1>2. pc'[t] = "out"
  BY <1>1 DEF Goes, PipesInv, PipeTypes
<1>3. OpenEndsOf(t)'
  <2>1. <<t, "in", "w">> \in open'
    BY <1>1 DEF PipesInv, OpenEnds, OpenEndsOf, PipeOf
  <2>2. open' \cap EndsOf(t)
          \subseteq {<<t, "in", "w">>, <<t, "out", "r">>, <<t, "err", "r">>}
    BY <1>1, EndFacts DEF PipeOf
  <2> QED
    BY <1>2, <2>1, <2>2 DEF OpenEndsOf
<1>4. open' \subseteq Ends /\ \A e \in Ends \ EndsOf(t) : e \in open' <=> e \in open
  BY ZenonT(60), <1>1, EndFacts DEF PipeOf, PipesInv, PipeTypes
<1>5. /\ \A u \in Threads : u # t => pc'[u] = pc[u]
      /\ pc' \in [Threads -> {"idle", "pipe in", "pipe out", "pipe err", "fork",
                              "close", "out", "err", "close all", "wait"} \cup Ended]
      /\ OpenEnds'
  BY <1>1, <1>3, <1>4, StepControl
<1>6. Zeros \in [1..BufferSize -> Cells] /\ \A i \in 1..BufferSize : Zeros[i] = Nul
  BY DEF Zeros, Nul, Cells
<1>7. PipeTypes'
  BY <1>1, <1>4, <1>5, <1>6 DEF PipesInv, PipeTypes
<1>8. CommandHolds'
  BY <1>1, <1>2, <1>5, CommandStays
<1>9. \A u \in Threads, k \in Streams : ReadOf(u, k)' = ReadOf(u, k)
  BY <1>1 DEF ReadOf
<1>10. InPipe' /\ Collected'
  BY SMTT(30), <1>1, <1>9 DEF PipesInv, InPipe, Collected
<1>11. InBuffer'
  <2> SUFFICES ASSUME NEW u \in Threads, NEW k \in Streams, pc'[u] = k,
                      NEW i \in 1..BufferSize
               PROVE  \/ buffer'[u][i] = Nul
                      \/ \E j \in 1..ReadOf(u, k)' : buffer'[u][i] = <<k, j>>
    BY DEF InBuffer
  <2>1. CASE u = t
    BY <1>1, <1>6, <2>1 DEF PipesInv, PipeTypes
  <2>2. CASE u # t
    <3>1. buffer'[u] = buffer[u] /\ pc[u] = k
      BY <1>1, <1>5, <2>2 DEF PipesInv, PipeTypes
    <3> QED
      BY <1>9, <3>1 DEF PipesInv, InBuffer
  <2> QED
    BY <2>1, <2>2
<1> QED
  BY <1>5, <1>7, <1>8, <1>10, <1>11 DEF PipesInv

LEMMA ReadEndKeeps ==
  ASSUME PipesInv, NEW t \in Threads, NEW k \in Streams, ReadEnd(t, k)
  PROVE  PipesInv'
<1> DEFINE place == IF k = "out" THEN "err" ELSE "close all"
<1>1. /\ pc[t] = k /\ pipe[t][k] = <<>> /\ NoWriter(t, k) /\ Goes(t, place)
      /\ buffer' = IF k = "out" THEN [buffer EXCEPT ![t] = Zeros] ELSE buffer
      /\ UNCHANGED <<open, held, pipe, got, program, wrote, child>>
  BY DEF ReadEnd, command
<1>2. \/ k = "out" /\ place = "err"
      \/ k = "err" /\ place = "close all"
  <2>1. CASE k = "out"
    BY <2>1
  <2>2. CASE k = "err"
    <3>1. k # "out"
      BY <2>2
    <3> QED
      BY <2>2, <3>1
  <2> QED
    BY <2>1, <2>2 DEF Streams
<1> HIDE DEF place
<1>3. pc'[t] = place
  BY <1>1 DEF Goes, PipesInv, PipeTypes
<1>4. OpenEndsOf(t)'
  BY <1>1, <1>2, <1>3 DEF OpenEndsOf, PipesInv, OpenEnds
<1>5. /\ \A u \in Threads : u # t => pc'[u] = pc[u]
      /\ pc' \in [Threads -> {"idle", "pipe in", "pipe out", "pipe err", "fork",
                              "close", "out", "err", "close all", "wait"} \cup Ended]
      /\ OpenEnds'
  BY <1>1, <1>2, <1>4, StepControl DEF PipesInv, PipeTypes
<1>6. Zeros \in [1..BufferSize -> Cells] /\ \A i \in 1..BufferSize : Zeros[i] = Nul
  BY DEF Zeros, Nul, Cells
<1>7. PipeTypes'
  <2>1. buffer' \in [Threads -> [1..BufferSize -> Cells]]
    BY <1>1, <1>6 DEF PipesInv, PipeTypes
  <2> QED
    BY <1>1, <1>5, <2>1 DEF PipesInv, PipeTypes
<1>8. ~Running(t)
  <2>1. <<t, k, "w">> \notin held[t]
    BY <1>1 DEF NoWriter
  <2> QED
    BY <1>2, <2>1 DEF PipesInv, CommandHolds
<1>9. CommandHolds'
  <2>1. pipe[t]["out"] = <<>>
    BY <1>1, <1>2 DEF PipesInv, CommandHolds
  <2>2. place = "close all" => pipe[t]["err"] = <<>>
    BY <1>1, <1>2
  <2> QED
    BY <1>1, <1>2, <1>3, <1>5, <1>8, <2>1, <2>2, CommandStays
<1>10. \A u \in Threads, l \in Streams : ReadOf(u, l)' = ReadOf(u, l)
  BY <1>1 DEF ReadOf
<1>11. InPipe' /\ Collected'
  BY <1>1, <1>10 DEF PipesInv, InPipe, Collected
<1>12. InBuffer'
  <2> SUFFICES ASSUME NEW u \in Threads, NEW l \in Streams, pc'[u] = l,
                      NEW i \in 1..BufferSize
               PROVE  \/ buffer'[u][i] = Nul
                      \/ \E j \in 1..ReadOf(u, l)' : buffer'[u][i] = <<l, j>>
    BY DEF InBuffer
  <2>1. CASE u = t
    <3>1. k = "out"
      BY <1>2, <1>3, <2>1 DEF Streams
    <3> QED
      BY <1>1, <1>6, <2>1, <3>1 DEF PipesInv, PipeTypes
  <2>2. CASE u # t
    <3>1. buffer'[u] = buffer[u] /\ pc[u] = l
      BY <1>1, <1>5, <2>2 DEF PipesInv, PipeTypes
    <3> QED
      BY <1>10, <3>1 DEF PipesInv, InBuffer
  <2> QED
    BY <2>1, <2>2
<1> QED
  BY <1>5, <1>7, <1>9, <1>11, <1>12 DEF PipesInv

LEMMA ExitKeeps ==
  ASSUME PipesInv, NEW t \in Threads, Exit(t)
  PROVE  PipesInv'
<1>1. /\ child' = [child EXCEPT ![t] = "exited"]
      /\ held' = [held EXCEPT ![t] = {}]
      /\ UNCHANGED <<pc, open, buffer, got, pipe, program, wrote>>
  BY DEF Exit, server
<1>2. PipeTypes'
  BY <1>1 DEF PipesInv, PipeTypes
<1>3. OpenEnds'
  BY <1>1 DEF PipesInv, OpenEnds, OpenEndsOf
<1>4. CommandHolds'
  <2>1. ~Running(t)'
    BY <1>1 DEF Running, PipesInv, PipeTypes
  <2>2. \A u \in Threads : u # t => held'[u] = held[u] /\ (Running(u)' <=> Running(u))
    BY <1>1 DEF Running, PipesInv, PipeTypes
  <2> QED
    BY <1>1, <2>1, <2>2 DEF PipesInv, CommandHolds
<1>5. InPipe' /\ InBuffer' /\ Collected'
  BY <1>1, DataStays
<1> QED
  BY <1>2, <1>3, <1>4, <1>5 DEF PipesInv

(* The command prints.                                                      *)
LEMMA OutputKeeps ==
  ASSUME PipesInv, NEW t \in Threads, NEW k \in Streams, Output(t, k)
  PROVE  PipesInv'
<1> DEFINE n == Head(program[t]).chars
           w == wrote[t][k]
           P == pipe[t][k]
           printed == [i \in 1..n |-> <<k, w + i>>]
<1>1. /\ child[t] = "runs" /\ program[t] # <<>> /\ Head(program[t]).op = k
      /\ Len(P) + n <= Capacity
      /\ pipe' = [pipe EXCEPT ![t] = [@ EXCEPT ![k] = P \o printed]]
      /\ wrote' = [wrote EXCEPT ![t] = [@ EXCEPT ![k] = w + n]]
      /\ program' = [program EXCEPT ![t] = Tail(@)]
      /\ UNCHANGED <<pc, open, buffer, got, held, child>>
  BY DEF Output, Doing, HasRoom, Does, server, PipesInv, PipeTypes
<1>2. n \in Nat
  <2>1. program[t] \in Seq(Operations)
    BY DEF PipesInv, PipeTypes
  <2>2. Head(program[t]) \in Operations
    BY <1>1, <2>1
  <2>3. Head(program[t]) \in [op : Streams, chars : 1..Capacity]
    BY <1>1, <2>2 DEF Operations, Streams
  <2> QED
    BY <2>3, PipesAssumption
<1>3. /\ w \in Nat /\ P \in Seq(Cells) /\ Len(P) \in Nat /\ Len(P) <= w
      /\ \A i \in 1..Len(P) : P[i] = <<k, (w - Len(P)) + i>>
  <2>1. w \in Nat /\ P \in Seq(Cells)
    BY DEF PipesInv, PipeTypes
  <2>2. Len(P) <= w /\ \A i \in 1..Len(P) : P[i] = <<k, ReadOf(t, k) + i>>
    BY DEF PipesInv, InPipe
  <2>3. ReadOf(t, k) = w - Len(P)
    BY DEF ReadOf
  <2> HIDE DEF w, P
  <2> QED
    BY <2>1, <2>2, <2>3
<1> HIDE DEF n, w, P
<1>4. \A i \in 1..n : <<k, w + i>> \in Cells
  BY <1>2, <1>3 DEF Cells, Streams
<1>5. printed \in Seq(Cells) /\ Len(printed) = n
  BY <1>2, <1>4
<1>6. /\ P \o printed \in Seq(Cells) /\ Len(P \o printed) = Len(P) + n
      /\ \A i \in 1..Len(P) : (P \o printed)[i] = P[i]
      /\ \A i \in 1..n : (P \o printed)[Len(P) + i] = <<k, w + i>>
  BY <1>2, <1>3, <1>5
<1> DEFINE new == P \o printed
<1> HIDE DEF new
<1>7. /\ pipe' \in [Threads -> [Streams -> Seq(Cells)]]
      /\ pipe'[t][k] = new /\ wrote'[t][k] = w + n
      /\ wrote' \in [Threads -> [Streams -> Nat]]
      /\ \A u \in Threads, l \in Streams :
           ~(u = t /\ l = k) => pipe'[u][l] = pipe[u][l] /\ wrote'[u][l] = wrote[u][l]
  <2>1. pipe' = [pipe EXCEPT ![t] = [@ EXCEPT ![k] = new]] /\ new \in Seq(Cells)
    BY <1>1, <1>6 DEF new
  <2>2. w + n \in Nat
    BY <1>2, <1>3
  <2>3. /\ pipe' \in [Threads -> [Streams -> Seq(Cells)]] /\ pipe'[t][k] = new
        /\ \A u \in Threads, l \in Streams :
             ~(u = t /\ l = k) => pipe'[u][l] = pipe[u][l]
    BY <2>1 DEF PipesInv, PipeTypes
  <2>4. /\ wrote' \in [Threads -> [Streams -> Nat]] /\ wrote'[t][k] = w + n
        /\ \A u \in Threads, l \in Streams :
             ~(u = t /\ l = k) => wrote'[u][l] = wrote[u][l]
    BY <1>1, <2>2 DEF PipesInv, PipeTypes
  <2> QED
    BY <2>3, <2>4
<1>8. PipeTypes'
  <2>1. program' \in [Threads -> Seq(Operations)]
    <3>1. program[t] \in Seq(Operations) /\ program \in [Threads -> Seq(Operations)]
      BY DEF PipesInv, PipeTypes
    <3>2. Tail(program[t]) \in Seq(Operations)
      BY <1>1, <3>1
    <3> QED
      BY <1>1, <3>1, <3>2
  <2> QED
    BY <1>1, <1>7, <2>1 DEF PipesInv, PipeTypes
<1>9. OpenEnds'
  BY <1>1 DEF PipesInv, OpenEnds, OpenEndsOf
<1>10. CommandHolds'
  <2>1. pc[t] \in {"close", "out", "broken"}
    BY <1>1 DEF PipesInv, CommandHolds, Running
  <2>2. \A u \in Threads : u # t => pipe'[u]["out"] = pipe[u]["out"]
                                    /\ pipe'[u]["err"] = pipe[u]["err"]
    BY <1>7 DEF Streams
  <2> QED
    BY <1>1, <2>1, <2>2 DEF PipesInv, CommandHolds, Running
<1>11. \A u \in Threads, l \in Streams : ReadOf(u, l)' = ReadOf(u, l)
  <2> SUFFICES ASSUME NEW u \in Threads, NEW l \in Streams
               PROVE  wrote'[u][l] - Len(pipe'[u][l]) = wrote[u][l] - Len(pipe[u][l])
    BY DEF ReadOf
  <2>1. CASE u = t /\ l = k
    <3>1. wrote[u][l] = w /\ pipe[u][l] = P
      BY <2>1 DEF w, P
    <3>2. Len(new) = Len(P) + n
      BY <1>6 DEF new
    <3>3. pipe'[u][l] = new /\ wrote'[u][l] = w + n
      BY <1>7, <2>1
    <3>4. wrote'[u][l] - Len(pipe'[u][l]) = (w + n) - (Len(P) + n)
      BY Zenon, <3>2, <3>3
    <3>5. wrote[u][l] - Len(pipe[u][l]) = w - Len(P)
      BY Zenon, <3>1
    <3>6. (w + n) - (Len(P) + n) = w - Len(P)
      BY <1>2, <1>3
    <3> QED
      BY Zenon, <3>4, <3>5, <3>6
  <2>2. CASE ~(u = t /\ l = k)
    BY <1>7, <2>2
  <2> QED
    BY <2>1, <2>2
<1>12. InPipe'
  <2> SUFFICES ASSUME NEW u \in Threads, NEW l \in Streams
               PROVE  /\ Len(pipe'[u][l]) <= wrote'[u][l] /\ Len(pipe'[u][l]) <= Capacity
                      /\ \A i \in 1..Len(pipe'[u][l]) :
                           pipe'[u][l][i] = <<l, ReadOf(u, l)' + i>>
    BY DEF InPipe
  <2>1. CASE u = t /\ l = k
    <3> DEFINE p == Len(P)
    <3>1. /\ pipe'[u][l] = new /\ wrote'[u][l] = w + n
          /\ Len(new) = p + n /\ p \in Nat /\ p <= w /\ p + n <= Capacity
          /\ \A i \in 1..p : new[i] = <<k, (w - p) + i>>
          /\ \A i \in 1..n : new[p + i] = <<k, w + i>>
      BY <1>1, <1>3, <1>6, <1>7, <2>1 DEF new
    <3>2. ReadOf(u, l)' = w - p
      BY <1>11, <2>1 DEF ReadOf, w, P
    <3> HIDE DEF p
    <3>3. ASSUME NEW i \in 1..(p + n)
          PROVE  new[i] = <<k, (w - p) + i>>
      <4>1. CASE i \in 1..p
        BY <3>1, <4>1
      <4>2. CASE ~(i \in 1..p)
        <5>1. i - p \in 1..n /\ i = p + (i - p) /\ w + (i - p) = (w - p) + i
          BY <1>2, <1>3, <3>1, <4>2
        <5>2. new[p + (i - p)] = <<k, w + (i - p)>>
          BY <3>1, <5>1
        <5> QED
          BY <5>1, <5>2
      <4> QED
        BY <4>1, <4>2
    <3> QED
      BY <1>2, <1>3, <2>1, <3>1, <3>2, <3>3
  <2>2. CASE ~(u = t /\ l = k)
    <3>1. /\ pipe'[u][l] = pipe[u][l] /\ wrote'[u][l] = wrote[u][l]
          /\ ReadOf(u, l)' = ReadOf(u, l)
      BY <1>7, <1>11, <2>2
    <3>2. /\ Len(pipe[u][l]) <= wrote[u][l] /\ Len(pipe[u][l]) <= Capacity
          /\ \A i \in 1..Len(pipe[u][l]) : pipe[u][l][i] = <<l, ReadOf(u, l) + i>>
      BY DEF PipesInv, InPipe
    <3> QED
      BY <3>1, <3>2
  <2> QED
    BY <2>1, <2>2
<1>13. InBuffer' /\ Collected'
  <2>1. InBuffer'
    BY <1>1, <1>11 DEF PipesInv, InBuffer
  <2>2. Collected'
    BY <1>1, <1>11 DEF PipesInv, Collected
  <2> QED
    BY <2>1, <2>2
<1> QED
  BY <1>8, <1>9, <1>10, <1>12, <1>13 DEF PipesInv

(* What read returns overwrites the beginning of the buffer and leaves the  *)
(* pipe.                                                                    *)
LEMMA ReadFacts ==
  ASSUME NEW P \in Seq(Cells), P # <<>>, NEW old \in [1..BufferSize -> Cells]
  PROVE  LET n == Count(P)
             b == SubSeq(P, 1, n) \o SubSeq(old, n + 1, BufferSize)
             rest == SubSeq(P, n + 1, Len(P))
         IN /\ n \in Nat \ {0} /\ n <= BufferSize /\ n <= Len(P)
            /\ b \in [1..BufferSize -> Cells]
            /\ \A i \in 1..n : b[i] = P[i]
            /\ \A i \in 1..BufferSize : i > n => b[i] = old[i]
            /\ rest \in Seq(Cells) /\ Len(rest) = Len(P) - n
            /\ \A i \in 1..(Len(P) - n) : rest[i] = P[n + i]
<1> DEFINE n == Count(P)
           first == SubSeq(P, 1, n)
           last == SubSeq(old, n + 1, BufferSize)
           b == first \o last
           rest == SubSeq(P, n + 1, Len(P))
<1>1. n \in Nat \ {0} /\ n <= BufferSize /\ n <= Len(P) /\ BufferSize \in Nat
  <2>1. Len(P) \in Nat \ {0} /\ BufferSize \in Nat \ {0}
    BY PipesAssumption
  <2> QED
    BY <2>1 DEF Count
<1> HIDE DEF n
<1>2. first \in Seq(Cells) /\ Len(first) = n /\ \A i \in 1..n : first[i] = P[i]
  BY <1>1
<1>3. /\ rest \in Seq(Cells) /\ Len(rest) = Len(P) - n
      /\ \A i \in 1..(Len(P) - n) : rest[i] = P[n + i]
  BY <1>1
<1>4. /\ last \in Seq(Cells) /\ Len(last) = BufferSize - n
      /\ \A i \in 1..(BufferSize - n) : last[i] = old[n + i]
  <2>1. old \in Seq(Cells) /\ Len(old) = BufferSize
    BY <1>1
  <2> QED
    BY <1>1, <2>1
<1> HIDE DEF first, last, rest
<1>5. /\ b \in Seq(Cells) /\ Len(b) = BufferSize
      /\ \A i \in 1..n : b[i] = first[i]
      /\ \A i \in 1..(BufferSize - n) : b[n + i] = last[i]
  <2>1. Len(b) = n + (BufferSize - n)
    <3>1. first \in Seq(Cells) /\ last \in Seq(Cells)
      BY <1>2, <1>4
    <3>2. Len(b) = Len(first) + Len(last)
      BY <3>1
    <3> QED
      BY <1>2, <1>4, <3>2
  <2>2. /\ b \in Seq(Cells)
        /\ \A i \in 1..n : b[i] = first[i]
        /\ \A i \in 1..(BufferSize - n) : b[n + i] = last[i]
    BY <1>1, <1>2, <1>4
  <2> QED
    BY <1>1, <2>1, <2>2
<1> HIDE DEF b
<1>6. b \in [1..BufferSize -> Cells] /\ \A i \in 1..n : b[i] = P[i]
  BY <1>1, <1>2, <1>5
<1>7. ASSUME NEW i \in 1..BufferSize, i > n
      PROVE  b[i] = old[i]
  <2>1. i - n \in 1..(BufferSize - n) /\ i = n + (i - n)
    BY <1>1, <1>7
  <2>2. b[n + (i - n)] = last[i - n] /\ last[i - n] = old[n + (i - n)]
    BY <1>4, <1>5, <2>1
  <2> QED
    BY <2>1, <2>2
<1> QED
  BY <1>1, <1>3, <1>6, <1>7 DEF n, first, last, b, rest

LEMMA ReadKeeps ==
  ASSUME PipesInv, NEW t \in Threads, NEW k \in Streams, Read(t, k)
  PROVE  PipesInv'
<1> DEFINE P == pipe[t][k]
           n == Count(P)
           b == SubSeq(P, 1, n) \o SubSeq(buffer[t], n + 1, BufferSize)
           rest == SubSeq(P, n + 1, Len(P))
           G == got[t][k]
           r == ReadOf(t, k)
<1>1. /\ pc[t] = k /\ P # <<>>
      /\ pipe' = [pipe EXCEPT ![t] = [@ EXCEPT ![k] = rest]]
      /\ buffer' = [buffer EXCEPT ![t] = b]
      /\ UNCHANGED <<pc, open, held, program, wrote, child>>
  BY DEF Read, command, PipesInv, PipeTypes
<1>2. PICK string \in Strings(t, b) :
        got' = [got EXCEPT ![t] = [@ EXCEPT ![k] = G \o string]]
  BY DEF Read, Appended, PipesInv, PipeTypes
<1>3. /\ P \in Seq(Cells) /\ G \in Seq(Cells) /\ buffer[t] \in [1..BufferSize -> Cells]
      /\ wrote[t][k] \in Nat
  BY DEF PipesInv, PipeTypes
<1>4. /\ n \in Nat \ {0} /\ n <= BufferSize /\ n <= Len(P)
      /\ b \in [1..BufferSize -> Cells]
      /\ \A i \in 1..n : b[i] = P[i]
      /\ \A i \in 1..BufferSize : i > n => b[i] = buffer[t][i]
      /\ rest \in Seq(Cells) /\ Len(rest) = Len(P) - n
      /\ \A i \in 1..(Len(P) - n) : rest[i] = P[n + i]
  <2> HIDE DEF P
  <2> QED
    BY <1>1, <1>3, ReadFacts
<1>5. /\ Len(P) <= wrote[t][k] /\ Len(P) <= Capacity /\ Len(P) \in Nat
      /\ \A i \in 1..Len(P) : P[i] = <<k, r + i>>
  BY <1>3 DEF PipesInv, InPipe
<1>6. r = wrote[t][k] - Len(P) /\ r \in Nat
  <2>1. r = wrote[t][k] - Len(P)
    BY DEF ReadOf
  <2> HIDE DEF P, r
  <2> QED
    BY <1>3, <1>5, <2>1
<1>7. \A i \in 1..BufferSize :
        buffer[t][i] = Nul \/ \E j \in 1..r : buffer[t][i] = <<k, j>>
  BY <1>1 DEF PipesInv, InBuffer
<1>8. /\ \A i \in 1..Len(G) : G[i] = Junk \/ \E j \in 1..r : G[i] = <<k, j>>
      /\ \A j \in 1..r : j \in BeforeNul(t, k) => Positions(G, <<k, j>>) # {}
      /\ \A j \in 2..r : j \in BeforeNul(t, k) =>
           Min(Positions(G, <<k, j - 1>>)) < Min(Positions(G, <<k, j>>))
  BY DEF PipesInv, Collected
<1> HIDE DEF P, n, b, rest, G, r
<1>9. \A i \in 1..n : b[i] = <<k, r + i>> /\ b[i] # Nul
  <2>1. \A i \in 1..n : i \in 1..Len(P)
    BY <1>4, <1>5
  <2>2. \A i \in 1..n : b[i] = <<k, r + i>>
    BY <1>4, <1>5, <2>1
  <2>3. k # "nul"
    BY DEF Streams
  <2> QED
    BY <2>2, <2>3 DEF Nul
<1>10. \A i \in 1..BufferSize :
         b[i] = Nul \/ \E j \in 1..(r + n) : b[i] = <<k, j>>
  <2> SUFFICES ASSUME NEW i \in 1..BufferSize
               PROVE  b[i] = Nul \/ \E j \in 1..(r + n) : b[i] = <<k, j>>
    OBVIOUS
  <2>1. i \in Nat /\ i >= 1
    BY PipesAssumption
  <2>2. CASE i <= n
    <3>1. i \in 1..n /\ r + i \in 1..(r + n)
      BY <1>4, <1>6, <2>1, <2>2
    <3> QED
      BY <1>9, <3>1
  <2>3. CASE i > n
    <3>1. \A j \in 1..r : j \in 1..(r + n)
      BY <1>4, <1>6
    <3> QED
      BY <1>4, <1>7, <2>3, <3>1
  <2> QED
    BY <1>4, <2>1, <2>2, <2>3
<1>11. /\ string \in Seq(Cells) /\ Len(string) \in Nat
       /\ \A i \in 1..Len(string) :
            \/ string[i] = Junk
            \/ i \in 1..BufferSize /\ string[i] = b[i] /\ b[i] # Nul
  <2>1. 0 \in 0..BufferSize /\ \A i \in 1..0 : ~IsNul(t, b[i])
    BY PipesAssumption
  <2>2. \A i \in 1..BufferSize : ~IsNul(t, b[i]) => b[i] # Nul
    BY DEF IsNul
  <2>3. /\ string \in Seq(Cells) /\ Len(string) \in Nat
        /\ \A i \in 1..Len(string) :
             \/ string[i] = Junk
             \/ i \in 1..BufferSize /\ string[i] = b[i] /\ ~IsNul(t, b[i])
    BY <1>2, <1>4, <2>1, StringFacts
  <2> QED
    BY <2>2, <2>3
<1>27. \A i \in 1..n : r + i \in BeforeNul(t, k) =>
         i <= Len(string) /\ string[i] = b[i]
  <2> SUFFICES ASSUME NEW i \in 1..n, r + i \in BeforeNul(t, k)
               PROVE  i <= Len(string) /\ string[i] = b[i]
    OBVIOUS
  <2>1. i \in 0..BufferSize /\ i \in 1..i
    BY <1>4, PipesAssumption
  <2>2. ASSUME NEW m \in 1..i
        PROVE  ~IsNul(t, b[m])
    <3>1. m \in 1..n /\ r + m \in 1..(r + i)
      BY SMTT(30), <1>4, <1>6
    <3>2. b[m] = <<k, r + m>> /\ b[m] # Nul
      BY <1>9, <3>1
    <3>3. <<t, k, r + m>> \notin NulChars
      BY <3>1 DEF BeforeNul
    <3> QED
      BY <3>2, <3>3 DEF IsNul
  <2> HIDE DEF b, n
  <2>3. b \in [1..BufferSize -> Cells] /\ string \in Strings(t, b)
    BY <1>2, <1>4
  <2>4. Len(string) \in Nat /\ i <= Len(string) /\ \A m \in 1..i : string[m] = b[m]
    BY <2>1, <2>2, <2>3, StringFacts
  <2> QED
    BY <2>1, <2>4
<1>28. \A j \in BeforeNul(t, k) :
         j \in Nat /\ \A i \in 1..j : i \in BeforeNul(t, k)
  BY DEF BeforeNul
<1> DEFINE H == G \o string
<1>12. /\ \A i \in 1..Len(H) : H[i] = Junk \/ \E j \in 1..(r + n) : H[i] = <<k, j>>
       /\ \A j \in 1..(r + n) :
            j \in BeforeNul(t, k) => Positions(H, <<k, j>>) # {}
       /\ \A j \in 2..(r + n) : j \in BeforeNul(t, k) =>
            Min(Positions(H, <<k, j - 1>>)) < Min(Positions(H, <<k, j>>))
  <2>1. \A i \in 1..n : r + i \in BeforeNul(t, k) =>
          i <= Len(string) /\ string[i] = <<k, r + i>>
    BY <1>9, <1>27
  <2>2. \A i \in 1..Len(string) :
          string[i] = Junk \/ \E j \in 1..(r + n) : string[i] = <<k, j>>
    BY <1>10, <1>11
  <2>3. G \in Seq(Cells) /\ r \in Nat /\ n \in Nat \ {0}
    BY <1>3, <1>4, <1>6 DEF G
  <2> HIDE DEF H
  <2> QED
    BY <1>8, <1>11, <1>28, <2>1, <2>2, <2>3, CollectedGrows DEF H
<1>13. H \in Seq(Cells)
  BY <1>3, <1>11 DEF G
<1>14. got' = [got EXCEPT ![t] = [@ EXCEPT ![k] = H]]
  BY <1>2
<1> HIDE DEF H
<1>15. /\ pipe' \in [Threads -> [Streams -> Seq(Cells)]] /\ pipe'[t][k] = rest
       /\ \A u \in Threads, l \in Streams :
            ~(u = t /\ l = k) => pipe'[u][l] = pipe[u][l]
  BY <1>1, <1>4 DEF PipesInv, PipeTypes
<1>16. /\ got' \in [Threads -> [Streams -> Seq(Cells)]] /\ got'[t][k] = H
       /\ \A u \in Threads, l \in Streams :
            ~(u = t /\ l = k) => got'[u][l] = got[u][l]
  BY <1>13, <1>14 DEF PipesInv, PipeTypes
<1>17. /\ buffer' \in [Threads -> [1..BufferSize -> Cells]] /\ buffer'[t] = b
       /\ \A u \in Threads : u # t => buffer'[u] = buffer[u]
  BY <1>1, <1>4 DEF PipesInv, PipeTypes
<1>18. PipeTypes'
  BY <1>1, <1>15, <1>16, <1>17 DEF PipesInv, PipeTypes
<1>19. OpenEnds'
  BY <1>1 DEF PipesInv, OpenEnds, OpenEndsOf
<1>20. \A u \in Threads, l \in Streams :
         ReadOf(u, l)' = IF u = t /\ l = k THEN r + n ELSE ReadOf(u, l)
  <2> SUFFICES ASSUME NEW u \in Threads, NEW l \in Streams
               PROVE  ReadOf(u, l)' = IF u = t /\ l = k THEN r + n ELSE ReadOf(u, l)
    OBVIOUS
  <2>1. ReadOf(u, l)' = wrote[u][l] - Len(pipe'[u][l])
    BY <1>1 DEF ReadOf
  <2>2. CASE u = t /\ l = k
    <3> DEFINE p == Len(P)
               w == wrote[t][k]
    <3>1. Len(pipe'[u][l]) = p - n /\ wrote[u][l] = w
      BY <1>4, <1>15, <2>2
    <3>2. p \in Nat /\ w \in Nat /\ n \in Nat /\ r = w - p
      BY <1>3, <1>4, <1>5, <1>6
    <3> HIDE DEF p, w
    <3>3. w - (p - n) = r + n
      BY <3>2
    <3> QED
      BY <2>1, <2>2, <3>1, <3>3
  <2>3. CASE ~(u = t /\ l = k)
    BY <1>15, <2>1, <2>3 DEF ReadOf
  <2> QED
    BY <2>2, <2>3
<1>21. ReadOf(t, k)' = r + n
  BY <1>20
<1>22. \A u \in Threads, l \in Streams : ~(u = t /\ l = k) => ReadOf(u, l)' = ReadOf(u, l)
  BY <1>20
<1>23. CommandHolds'
  <2>1. k = "out" => pc[t] \notin {"err", "close all", "wait", "done"}
    BY <1>1
  <2>2. pc[t] \notin {"close all", "wait", "done"}
    BY <1>1 DEF Streams
  <2>3. k = "err" => pipe'[t]["out"] = pipe[t]["out"]
    BY <1>15 DEF Streams
  <2>4. k = "out" \/ k = "err"
    BY DEF Streams
  <2>5. \A u \in Threads : u # t => pipe'[u]["out"] = pipe[u]["out"]
                                    /\ pipe'[u]["err"] = pipe[u]["err"]
    BY <1>15 DEF Streams
  <2> QED
    BY <1>1, <2>1, <2>2, <2>3, <2>4, <2>5 DEF PipesInv, CommandHolds, Running
<1>24. InPipe'
  <2> SUFFICES ASSUME NEW u \in Threads, NEW l \in Streams
               PROVE  /\ Len(pipe'[u][l]) <= wrote'[u][l] /\ Len(pipe'[u][l]) <= Capacity
                      /\ \A i \in 1..Len(pipe'[u][l]) :
                           pipe'[u][l][i] = <<l, ReadOf(u, l)' + i>>
    BY DEF InPipe
  <2>1. CASE u = t /\ l = k
    <3> DEFINE p == Len(P)
    <3>1. /\ p \in Nat /\ p <= wrote[t][k] /\ p <= Capacity
          /\ \A i \in 1..p : P[i] = <<k, r + i>>
          /\ n <= p /\ Len(rest) = p - n /\ \A i \in 1..(p - n) : rest[i] = P[n + i]
      BY <1>4, <1>5
    <3> HIDE DEF p
    <3>2. p - n \in Nat /\ p - n <= wrote[t][k] /\ p - n <= Capacity
      BY <1>3, <1>4, <3>1, PipesAssumption
    <3>3. ASSUME NEW i \in 1..(p - n)
          PROVE  rest[i] = <<k, (r + n) + i>>
      <4>0. n \in Nat /\ r \in Nat /\ p \in Nat /\ n <= p /\ i \in Nat
        BY <1>4, <1>6, <3>1
      <4>1. n + i \in 1..p /\ r + (n + i) = (r + n) + i
        BY <4>0
      <4>2. P[n + i] = <<k, r + (n + i)>>
        BY <3>1, <4>1
      <4> QED
        BY <3>1, <4>1, <4>2
    <3> QED
      BY <1>1, <1>15, <1>21, <2>1, <3>1, <3>2, <3>3
  <2>2. CASE ~(u = t /\ l = k)
    <3>1. /\ pipe'[u][l] = pipe[u][l] /\ wrote'[u][l] = wrote[u][l]
          /\ ReadOf(u, l)' = ReadOf(u, l)
      BY <1>1, <1>15, <1>22, <2>2
    <3>2. /\ Len(pipe[u][l]) <= wrote[u][l] /\ Len(pipe[u][l]) <= Capacity
          /\ \A i \in 1..Len(pipe[u][l]) : pipe[u][l][i] = <<l, ReadOf(u, l) + i>>
      BY DEF PipesInv, InPipe
    <3> QED
      BY <3>1, <3>2
  <2> QED
    BY <2>1, <2>2
<1>25. InBuffer'
  <2> SUFFICES ASSUME NEW u \in Threads, NEW l \in Streams, pc'[u] = l,
                      NEW i \in 1..BufferSize
               PROVE  \/ buffer'[u][i] = Nul
                      \/ \E j \in 1..ReadOf(u, l)' : buffer'[u][i] = <<l, j>>
    BY DEF InBuffer
  <2>1. CASE u = t
    <3>1. l = k
      BY <1>1, <2>1
    <3> QED
      BY <1>10, <1>17, <1>21, <2>1, <3>1
  <2>2. CASE u # t
    <3>1. buffer'[u] = buffer[u] /\ pc[u] = l /\ ReadOf(u, l)' = ReadOf(u, l)
      BY <1>1, <1>17, <1>22, <2>2
    <3> QED
      BY <3>1 DEF PipesInv, InBuffer
  <2> QED
    BY <2>1, <2>2
<1>26. Collected'
  <2> SUFFICES ASSUME NEW u \in Threads, NEW l \in Streams
               PROVE  /\ \A i \in 1..Len(got'[u][l]) :
                           \/ got'[u][l][i] = Junk
                           \/ \E j \in 1..ReadOf(u, l)' : got'[u][l][i] = <<l, j>>
                      /\ \A j \in 1..ReadOf(u, l)' : j \in BeforeNul(u, l) =>
                           Positions(got'[u][l], <<l, j>>) # {}
                      /\ \A j \in 2..ReadOf(u, l)' : j \in BeforeNul(u, l) =>
                           Min(Positions(got'[u][l], <<l, j - 1>>))
                             < Min(Positions(got'[u][l], <<l, j>>))
    BY DEF Collected
  <2>1. CASE u = t /\ l = k
    <3>1. got'[u][l] = H /\ ReadOf(u, l)' = r + n
      BY <1>16, <1>21, <2>1
    <3> QED
      BY <1>12, <2>1, <3>1
  <2>2. CASE ~(u = t /\ l = k)
    <3>1. got'[u][l] = got[u][l] /\ ReadOf(u, l)' = ReadOf(u, l)
      BY <1>16, <1>22, <2>2
    <3> QED
      BY <3>1 DEF PipesInv, Collected
  <2> QED
    BY <2>1, <2>2
<1> QED
  BY <1>18, <1>19, <1>23, <1>24, <1>25, <1>26 DEF PipesInv

-----------------------------------------------------------------------------
(***************************************************************************)
(* The theorems.                                                           *)
(***************************************************************************)
LEMMA PipesInit == Init => PipesInv
<1> SUFFICES ASSUME Init PROVE PipesInv
  OBVIOUS
<1>1. /\ pc = [t \in Threads |-> "idle"] /\ open = {}
      /\ held = [t \in Threads |-> {}]
      /\ pipe = [t \in Threads |-> [k \in Streams |-> <<>>]]
      /\ buffer = [t \in Threads |-> Zeros]
      /\ got = [t \in Threads |-> [k \in Streams |-> <<>>]]
      /\ program = [t \in Threads |-> <<>>]
      /\ wrote = [t \in Threads |-> [k \in Streams |-> 0]]
      /\ child = [t \in Threads |-> "none"]
  BY DEF Init
<1>2. Zeros \in [1..BufferSize -> Cells]
  BY DEF Zeros, Nul, Cells
<1>3. PipeTypes
  <2>1. open \subseteq Ends /\ held \in [Threads -> SUBSET Ends]
    BY <1>1
  <2>2. <<>> \in Seq(Cells) /\ <<>> \in Seq(Operations)
    OBVIOUS
  <2>3. /\ pipe \in [Threads -> [Streams -> Seq(Cells)]]
        /\ got \in [Threads -> [Streams -> Seq(Cells)]]
        /\ program \in [Threads -> Seq(Operations)]
    BY <1>1, <2>2
  <2>4. buffer \in [Threads -> [1..BufferSize -> Cells]]
    BY <1>1, <1>2
  <2>5. /\ wrote \in [Threads -> [Streams -> Nat]]
        /\ child \in [Threads -> {"none", "runs", "exited"}]
        /\ pc \in [Threads -> {"idle", "pipe in", "pipe out", "pipe err", "fork", "close",
                               "out", "err", "close all", "wait"} \cup Ended]
    BY <1>1
  <2> QED
    BY <2>1, <2>3, <2>4, <2>5 DEF PipeTypes
<1>4. OpenEnds
  BY <1>1 DEF OpenEnds, OpenEndsOf
<1>5. CommandHolds
  BY <1>1 DEF CommandHolds, Running
<1>6. \A t \in Threads, k \in Streams :
        pipe[t][k] = <<>> /\ got[t][k] = <<>> /\ wrote[t][k] = 0 /\ ReadOf(t, k) = 0
  BY <1>1 DEF ReadOf
<1>7. InPipe
  BY <1>6, PipesAssumption DEF InPipe
<1>8. InBuffer
  BY <1>1 DEF InBuffer, Streams
<1>9. Collected
  BY <1>6 DEF Collected
<1> QED
  BY <1>3, <1>4, <1>5, <1>7, <1>8, <1>9 DEF PipesInv

LEMMA PipesStep == PipesInv /\ [Next]_vars => PipesInv'
<1> SUFFICES ASSUME PipesInv, [Next]_vars PROVE PipesInv'
  OBVIOUS
<1>1. CASE Next
  <2>1. PICK t \in Threads :
          \/ \E p \in Programs : Start(t, p)
          \/ ThreadStep(t) \/ CallFails(t) \/ ChildStep(t)
    BY <1>1 DEF Next
  <2>2. ASSUME NEW p \in Programs, Start(t, p) PROVE PipesInv'
    BY <2>2, StartKeeps
  <2>3. CASE ThreadStep(t)
    <3>1. ASSUME NEW k \in Kinds, OpenPipe(t, k) PROVE PipesInv'
      BY <3>1, OpenPipeKeeps
    <3>2. CASE Fork(t)
      BY <3>2, ForkKeeps
    <3>3. CASE CloseEnds(t)
      BY <3>3, CloseEndsKeeps
    <3>4. ASSUME NEW k \in Streams, Read(t, k) PROVE PipesInv'
      BY <3>4, ReadKeeps
    <3>5. ASSUME NEW k \in Streams, ReadEnd(t, k) PROVE PipesInv'
      BY <3>5, ReadEndKeeps
    <3>6. CASE CloseAll(t) \/ WaitPid(t)
      BY <3>6, LeaveKeeps
    <3> QED
      BY <2>3, <3>1, <3>2, <3>3, <3>4, <3>5, <3>6 DEF ThreadStep
  <2>4. CASE CallFails(t)
    <3>1. CASE ForkFails(t) \/ \E k \in Kinds : OpenFails(t, k)
      BY <3>1, FailsKeeps
    <3>2. CASE \E k \in Streams : ReadFails(t, k)
      BY <3>2, LeaveKeeps
    <3> QED
      BY <2>4, <3>1, <3>2 DEF CallFails
  <2>5. CASE ChildStep(t)
    <3>1. ASSUME NEW k \in Streams, Output(t, k) PROVE PipesInv'
      BY <3>1, OutputKeeps
    <3>2. CASE Exit(t)
      BY <3>2, ExitKeeps
    <3> QED
      BY <2>5, <3>1, <3>2 DEF ChildStep
  <2> QED
    BY <2>1, <2>2, <2>3, <2>4, <2>5
<1>2. CASE UNCHANGED vars
  <2>1. UNCHANGED <<pc, open, held, pipe, buffer, got, program, wrote, child>>
    BY <1>2 DEF vars
  <2>2. InPipe' /\ InBuffer' /\ Collected'
    BY <2>1, DataStays
  <2>3. PipeTypes' /\ OpenEnds' /\ CommandHolds'
    BY <2>1 DEF PipesInv, PipeTypes, OpenEnds, OpenEndsOf, CommandHolds, Running
  <2> QED
    BY <2>2, <2>3 DEF PipesInv
<1> QED
  BY <1>1, <1>2

(* What a thread has open, what its command holds, and what is in the pipe, *)
(* the buffer and the strings fit together at every moment of every         *)
(* interleaving, also while templates are filled in.                        *)
THEOREM PipesInductive == ExecuteSpec => []PipesInv
<1>1. ExecuteInit => PipesInv
  BY PipesInit DEF ExecuteInit
<1>2. PipesInv /\ [ExecuteNext]_<<vars, fillVars>> => PipesInv'
  <2>1. [ExecuteNext]_<<vars, fillVars>> => [Next]_vars
    BY DEF ExecuteNext, GetExec, HandOver, Run
  <2> QED
    BY <2>1, PipesStep
<1> QED
  BY <1>1, <1>2, PTL DEF ExecuteSpec

(* A read never goes past the end of the buffer, no pipe takes more than it *)
(* holds, and the counts stay in range.                                     *)
THEOREM PipesTypeCorrect == ExecuteSpec => []TypeOK
<1>1. PipesInv => TypeOK
  <2> SUFFICES ASSUME PipesInv PROVE TypeOK
    OBVIOUS
  <2>1. \A t \in Threads : Len(buffer[t]) = BufferSize
    <3> SUFFICES ASSUME NEW t \in Threads PROVE Len(buffer[t]) = BufferSize
      OBVIOUS
    <3>1. buffer[t] \in [1..BufferSize -> Cells] /\ BufferSize \in Nat
      BY PipesAssumption DEF PipesInv, PipeTypes
    <3> QED
      BY <3>1
  <2>2. /\ pc \in [Threads -> {"idle", "pipe in", "pipe out", "pipe err", "fork", "close",
                               "out", "err", "close all", "wait"} \cup Ended]
        /\ open \subseteq Ends
        /\ \A t \in Threads : held[t] \subseteq Ends /\ child[t] \in {"none", "runs", "exited"}
        /\ \A t \in Threads, k \in Streams : wrote[t][k] \in Nat
    BY DEF PipesInv, PipeTypes
  <2>3. \A t \in Threads, k \in Streams : Len(pipe[t][k]) <= Capacity
    BY DEF PipesInv, InPipe
  <2> QED
    BY <2>1, <2>2, <2>3 DEF TypeOK
<1> QED
  BY <1>1, PipesInductive, PTL

(* When unix_execute has returned, the strings have everything the command  *)
(* printed before its first NUL, every character after those before it:     *)
(* both pipes are empty, so what has been read is what was written, and a   *)
(* read leaves characters out of a string only after a NUL.                 *)
THEOREM NothingIsMissing == ExecuteSpec => []NothingMissing
<1>1. PipesInv => NothingMissing
  <2> SUFFICES ASSUME PipesInv, NEW t \in Threads, NEW k \in Streams, pc[t] = "done",
                      NEW i \in 1..wrote[t][k], i \in BeforeNul(t, k)
               PROVE  /\ Positions(got[t][k], <<k, i>>) # {}
                      /\ i > 1 => Min(Positions(got[t][k], <<k, i - 1>>))
                                    < Min(Positions(got[t][k], <<k, i>>))
    BY DEF NothingMissing
  <2>1. pipe[t][k] = <<>>
    BY DEF PipesInv, CommandHolds, Streams
  <2>2. wrote[t][k] \in Nat
    BY ZenonT(60) DEF PipesInv, PipeTypes
  <2>3. ReadOf(t, k) = wrote[t][k]
    BY <2>1, <2>2 DEF ReadOf
  <2>4. i > 1 => i \in 2..wrote[t][k]
    BY <2>2
  <2> QED
    BY <2>3, <2>4 DEF PipesInv, Collected
<1> QED
  BY <1>1, PipesInductive, PTL

(* No character of one stream is ever in the string of the other, although  *)
(* both loops read into one buffer.                                         *)
THEOREM StreamsAreSeparate == ExecuteSpec => []StreamsSeparate
<1>1. PipesInv => StreamsSeparate
  <2> SUFFICES ASSUME PipesInv, NEW t \in Threads, NEW k \in Streams,
                      NEW i \in DOMAIN got[t][k]
               PROVE  got[t][k][i][1] \in {k, "junk"}
    BY DEF StreamsSeparate
  <2>1. i \in 1..Len(got[t][k])
    <3>1. got[t][k] \in Seq(Cells)
      BY ZenonT(60) DEF PipesInv, PipeTypes
    <3> QED
      BY <3>1
  <2>2. got[t][k][i] = Junk \/ \E j \in 1..ReadOf(t, k) : got[t][k][i] = <<k, j>>
    BY <2>1 DEF PipesInv, Collected
  <2> QED
    BY <2>2 DEF Junk
<1> QED
  BY <1>1, PipesInductive, PTL

(* unix_execute leaves no pipe of its own open when it returns or throws    *)
(* for want of a pipe or a process.                                         *)
THEOREM NothingIsLeftOpen == ExecuteSpec => []NothingLeftOpen
<1>1. PipesInv => NothingLeftOpen
  BY DEF PipesInv, OpenEnds, OpenEndsOf, NothingLeftOpen, Closed
<1> QED
  BY <1>1, PipesInductive, PTL

(* While a command runs, its thread has not got past the end of its output, *)
(* since the command itself holds the write ends, and so still has the      *)
(* write end of its input.                                                  *)
THEOREM InputDoesNotEnd == ExecuteSpec => []InputStaysOpen
<1>1. PipesInv => InputStaysOpen
  <2> SUFFICES ASSUME PipesInv, NEW t \in Threads, child[t] = "runs"
               PROVE  <<t, "in", "w">> \in open
    BY DEF InputStaysOpen, NoWriter
  <2>1. pc[t] \in {"close", "out", "broken"}
    BY DEF PipesInv, CommandHolds, Running
  <2>2. pc[t] = "close" => PipeOf(t, "in") \subseteq open
    BY DEF PipesInv, OpenEnds, OpenEndsOf
  <2>3. pc[t] \in {"out", "broken"} => <<t, "in", "w">> \in open
    BY DEF PipesInv, OpenEnds, OpenEndsOf
  <2> QED
    BY <2>1, <2>2, <2>3 DEF PipeOf
<1> QED
  BY <1>1, PipesInductive, PTL

-----------------------------------------------------------------------------
(***************************************************************************)
(* Templates: what the automaton makes of the pieces.                      *)
(***************************************************************************)
Text == Seq(Alphabet)
Automata == [matched : 0..10, potential : Text, out : Text, threw : BOOLEAN]

(* The automaton between two pieces.                                        *)
Fresh(a) == a \in Automata /\ a.matched = 0 /\ a.threw = FALSE

LEMMA PrefixFacts ==
  /\ Prefix \in Text /\ Len(Prefix) = 10 /\ Digits \in Text /\ Len(Digits) = 10
  /\ "}" \in Alphabet /\ DOMAIN Digits = 1..10
  /\ \A i \in 1..10 : Prefix[i] \in Alphabet /\ Digits[i] \in Alphabet
<1>1. Len(Prefix) = 10 /\ Len(Digits) = 10 /\ DOMAIN Prefix = 1..10 /\ DOMAIN Digits = 1..10
  BY DEF Prefix, Digits
<1>2. \A i \in 1..10 : Prefix[i] \in Alphabet /\ Digits[i] \in Alphabet
  BY <1>1, TemplateAssumption DEF ToSet
<1>3. "}" \in Alphabet
  BY TemplateAssumption
<1>4. Prefix \in Text
  <2> DEFINE S == {"{", "r", "c", "f", "p", "a", "m", ":"}
  <2>1. Prefix \in Seq(S)
    BY DEF Prefix
  <2>2. S \subseteq Alphabet
    <3>1. /\ Prefix[1] = "{" /\ Prefix[2] = "r" /\ Prefix[3] = "c" /\ Prefix[4] = "f"
          /\ Prefix[5] = "p" /\ Prefix[6] = "a" /\ Prefix[9] = "m" /\ Prefix[10] = ":"
      BY DEF Prefix
    <3>2. /\ Prefix[1] \in Alphabet /\ Prefix[2] \in Alphabet /\ Prefix[3] \in Alphabet
          /\ Prefix[4] \in Alphabet /\ Prefix[5] \in Alphabet /\ Prefix[6] \in Alphabet
          /\ Prefix[9] \in Alphabet /\ Prefix[10] \in Alphabet
      BY <1>2
    <3> QED
      BY <3>1, <3>2
  <2> HIDE DEF S
  <2> QED
    BY <2>1, <2>2 DEF Text
<1>5. Digits \in Text
  <2> DEFINE S == {"0", "1", "2", "3", "4", "5", "6", "7", "8", "9"}
  <2>1. Digits \in Seq(S)
    BY DEF Digits
  <2>2. S \subseteq Alphabet
    BY <1>2 DEF Digits
  <2> HIDE DEF S
  <2> QED
    BY <2>1, <2>2 DEF Text
<1> QED
  BY <1>1, <1>2, <1>3, <1>4, <1>5

LEMMA PrefixLength == Len(Prefix) = 10
BY DEF Prefix

LEMMA Joined ==
  ASSUME NEW S, NEW v \in Seq(S), NEW w \in Seq(S)
  PROVE  /\ v \o w \in Seq(S) /\ Len(v \o w) = Len(v) + Len(w)
         /\ \A i \in 1..Len(v) : (v \o w)[i] = v[i]
         /\ \A i \in 1..Len(w) : (v \o w)[Len(v) + i] = w[i]
OBVIOUS

LEMMA OneAndTwo ==
  ASSUME NEW S, NEW x \in S, NEW y \in S
  PROVE  /\ <<x, y>> \in Seq(S) /\ Len(<<x, y>>) = 2
         /\ <<x, y>>[1] = x /\ <<x, y>>[2] = y
OBVIOUS

LEMMA Shortened ==
  ASSUME NEW S, NEW v \in Seq(S), NEW n \in 1..Len(v)
  PROVE  SubSeq(v, 1, n) \in Seq(S) /\ Len(SubSeq(v, 1, n)) = n /\ SubSeq(v, 1, n)[n] = v[n]
OBVIOUS

(* Characters, from the automaton after each of the characters.             *)
GoesThrough(f, a, text, params, numParams) ==
  f = [i \in 0..Len(text) |->
         IF i = 0 THEN a ELSE Character(f[i - 1], text[i], params, numParams)]

LEMMA CharactersAre ==
  ASSUME NEW text \in Text, NEW a, NEW params, NEW numParams, NEW f,
         GoesThrough(f, a, text, params, numParams)
  PROVE  Characters(a, text, params, numParams) = f[Len(text)]
<1> DEFINE n == Len(text)
           Then(b, c) == Character(b, c, params, numParams)
           After(h) == h = [i \in 0..n |->
                              IF i = 0 THEN a ELSE Character(h[i - 1], text[i], params, numParams)]
           after == CHOOSE h : After(h)
<1>1. n \in Nat /\ n \in 0..n
  BY DEF Text
<1>2. After(f)
  BY DEF GoesThrough
<1>3. After(after)
  BY <1>2
<1>4. Characters(a, text, params, numParams) = after[n]
  BY DEF Characters
<1> HIDE DEF after
<1>5. \A i \in 0..n : /\ after[i] = IF i = 0 THEN a ELSE Then(after[i - 1], text[i])
                      /\ f[i] = IF i = 0 THEN a ELSE Then(f[i - 1], text[i])
  <2> SUFFICES ASSUME NEW i \in 0..n
               PROVE  /\ after[i] = IF i = 0 THEN a ELSE Then(after[i - 1], text[i])
                      /\ f[i] = IF i = 0 THEN a ELSE Then(f[i - 1], text[i])
    OBVIOUS
  <2> QED
    BY <1>2, <1>3, Zenon
<1> HIDE DEF Then, After
<1>6. StepsAlike(after, f, n)
  <2>1. 0 \in 0..n
    BY <1>1
  <2>2. after[0] = f[0]
    BY <1>5, <2>1
  <2>3. ASSUME NEW i \in 1..n, after[i - 1] = f[i - 1] PROVE after[i] = f[i]
    <3>1. i \in 0..n /\ i # 0
      BY <1>1
    <3> QED
      BY <1>5, <2>3, <3>1
  <2> QED
    BY <2>2, <2>3 DEF StepsAlike
<1> QED
  BY <1>1, <1>4, <1>6, SameUpTo

(* The value of a digit.                                                    *)
LEMMA DigitsDiffer == \A i, j \in 1..10 : Digits[i] = Digits[j] => i = j
BY DEF Digits

LEMMA DigitValue ==
  ASSUME NEW i \in 0..9
  PROVE  AtoI(<<Digits[i + 1]>>) = i
<1> DEFINE d == Digits[i + 1]
           text == <<d>>
<1>1. i + 1 \in 1..10 /\ DOMAIN Digits = 1..10 /\ d \in Alphabet
  <2> DEFINE j == i + 1
  <2>1. j \in 1..10
    OBVIOUS
  <2> HIDE DEF j
  <2>3. Digits[j] \in Alphabet
    BY <2>1, PrefixFacts
  <2> QED
    BY <2>1, <2>3, PrefixFacts DEF j
<1>2. ValueOf(d) = i
  <2>1. \A j \in DOMAIN Digits : Digits[j] = d => j = i + 1
    BY <1>1, DigitsDiffer
  <2>2. (CHOOSE j \in DOMAIN Digits : Digits[j] = d) = i + 1
    BY <1>1, <2>1
  <2> DEFINE j == CHOOSE j \in DOMAIN Digits : Digits[j] = d
  <2>3. ValueOf(d) = j - 1
    BY DEF ValueOf
  <2>4. j = i + 1
    BY <2>2
  <2> HIDE DEF j
  <2> QED
    BY <2>3, <2>4
<1>3. IsDigit(d)
  BY <1>1, PrefixFacts DEF IsDigit, Contains
<1> HIDE DEF d
<1>4. text \in Text /\ Len(text) = 1 /\ DOMAIN text = {1} /\ text[1] = d
  <2>1. d \in Alphabet
    BY <1>1
  <2>2. text \in Seq(Alphabet) /\ Len(text) = 1 /\ text[1] = d
    BY <2>1
  <2> QED
    BY <2>2 DEF Text
<1>5. {j \in DOMAIN text : ~IsDigit(text[j])} = {}
  BY <1>3, <1>4
<1> DEFINE Value(h) == h = [n \in 0..Len(text) |->
                              IF n = 0 THEN 0 ELSE 10 * h[n - 1] + ValueOf(text[n])]
           value == CHOOSE h : Value(h)
<1>6. AtoI(text) = value[Len(text)]
  BY <1>5 DEF AtoI
<1>7. PICK h : h = [n \in 0..1 |-> IF n = 0 THEN 0 ELSE i]
  OBVIOUS
<1>8. h[0] = 0 /\ h[1] = i /\ 0 \in 0..1 /\ 1 \in 0..1
  BY <1>7
<1>9. Value(h)
  <2>1. ASSUME NEW n \in 0..1
        PROVE  h[n] = (IF n = 0 THEN 0 ELSE 10 * h[n - 1] + ValueOf(text[n]))
    <3>1. CASE n = 0
      BY <1>8, <3>1
    <3>2. CASE n = 1
      <4>1. n - 1 = 0 /\ text[n] = d
        BY <1>4, <3>2
      <4>2. 10 * h[n - 1] + ValueOf(text[n]) = 10 * 0 + i
        BY <1>2, <1>8, <4>1 DEF d
      <4>3. 10 * 0 + i = i
        OBVIOUS
      <4> QED
        BY <1>8, <3>2, <4>2, <4>3
    <3> QED
      BY <3>1, <3>2
  <2>2. h = [n \in 0..1 |-> IF n = 0 THEN 0 ELSE 10 * h[n - 1] + ValueOf(text[n])]
    BY <1>7, <2>1
  <2> QED
    BY <1>4, <2>2
<1>10. Value(value)
  BY <1>9
<1> HIDE DEF value, text
<1>11. \A n \in 0..1 : value[n] = IF n = 0 THEN 0 ELSE 10 * value[n - 1] + ValueOf(text[n])
  <2> SUFFICES ASSUME NEW n \in 0..1
               PROVE  value[n] = IF n = 0 THEN 0 ELSE 10 * value[n - 1] + ValueOf(text[n])
    OBVIOUS
  <2> QED
    BY <1>4, <1>10
<1>12. value[0] = 0 /\ 0 \in 0..1 /\ 1 \in 0..1
  BY <1>11
<1>13. value[1] = 10 * value[0] + ValueOf(text[1])
  <2> DEFINE m == 1
  <2>1. m \in 0..1 /\ m # 0 /\ m - 1 = 0
    OBVIOUS
  <2> HIDE DEF m
  <2>2. value[m] = 10 * value[0] + ValueOf(text[m])
    BY <1>11, <2>1
  <2> QED
    BY <2>2 DEF m
<1>14. value[1] = i
  BY <1>2, <1>4, <1>12, <1>13 DEF d
<1> QED
  BY <1>4, <1>6, <1>14 DEF text, d

(* A placeholder has been matched up to a character of the text.            *)
Matched(a, text, i) ==
  IF i = 0 THEN a
  ELSE [matched |-> IF i <= 10 THEN i ELSE 10, potential |-> SubSeq(text, 1, i),
        out |-> a.out, threw |-> FALSE]

GoesOn(text, i) == IF i <= Len(Prefix) THEN text[i] = Prefix[i] ELSE text[i] # "}"

LEMMA BeginningOf ==
  ASSUME NEW text \in Text, NEW i \in 1..Len(text)
  PROVE  /\ text[i] \in Alphabet /\ SubSeq(text, 1, i) \in Text
         /\ i > 1 => SubSeq(text, 1, i) = Append(SubSeq(text, 1, i - 1), text[i])
         /\ SubSeq(text, 1, 1) = <<text[1]>>
         /\ SubSeq(text, 1, Len(text)) = text
<1>1. text[i] \in Alphabet /\ SubSeq(text, 1, i) \in Text
  BY DEF Text
<1>2. ASSUME i > 1 PROVE SubSeq(text, 1, i) = Append(SubSeq(text, 1, i - 1), text[i])
  BY <1>2 DEF Text
<1>3. SubSeq(text, 1, 1) = <<text[1]>>
  <2> DEFINE c == text[1]
  <2>1. SubSeq(text, 1, 0) = <<>> /\ SubSeq(text, 1, 1) = Append(SubSeq(text, 1, 0), c)
    BY DEF Text
  <2> HIDE DEF c
  <2>2. Append(<<>>, c) = <<c>>
    OBVIOUS
  <2> QED
    BY <2>1, <2>2 DEF c
<1>4. SubSeq(text, 1, Len(text)) = text
  BY DEF Text
<1> QED
  BY <1>1, <1>2, <1>3, <1>4

LEMMA MatchedIs ==
  ASSUME NEW a, NEW text, NEW i, i # 0
  PROVE  /\ i <= 10 => Matched(a, text, i) = [matched |-> i, potential |-> SubSeq(text, 1, i),
                                              out |-> a.out, threw |-> FALSE]
         /\ ~(i <= 10) \/ i = 10
              => Matched(a, text, i) = [matched |-> 10, potential |-> SubSeq(text, 1, i),
                                        out |-> a.out, threw |-> FALSE]
<1>1. Matched(a, text, i) = [matched |-> IF i <= 10 THEN i ELSE 10,
                             potential |-> SubSeq(text, 1, i), out |-> a.out, threw |-> FALSE]
  BY DEF Matched
<1> QED
  BY <1>1

LEMMA MatchedOneMore ==
  ASSUME NEW a, Fresh(a), NEW text \in Text, NEW i \in 1..Len(text), GoesOn(text, i),
         NEW params, NEW numParams
  PROVE  Character(Matched(a, text, i - 1), text[i], params, numParams) = Matched(a, text, i)
<1> DEFINE c == text[i]
           b == Matched(a, text, i - 1)
<1>1. i \in Nat /\ i >= 1 /\ Len(Prefix) = 10
  <2>1. i \in Nat /\ i >= 1
    BY DEF Text
  <2> QED
    BY <2>1, PrefixFacts
<1>2. CASE i = 1
  <2>1. b = a /\ c = Prefix[1]
    BY <1>1, <1>2 DEF Matched, GoesOn
  <2>2. a \in Automata /\ a.matched = 0 /\ a.threw = FALSE
    BY DEF Fresh
  <2>3. Character(a, c, params, numParams) = [a EXCEPT !.matched = 1, !.potential = <<c>>]
    BY <1>1, <2>1, <2>2 DEF Character
  <2>4. Matched(a, text, 1) = [matched |-> 1, potential |-> <<c>>, out |-> a.out, threw |-> FALSE]
    <3>1. SubSeq(text, 1, 1) = <<c>>
      BY <1>2, BeginningOf
    <3>2. 1 # 0 /\ 1 <= 10
      OBVIOUS
    <3>3. Matched(a, text, 1) = [matched |-> 1, potential |-> SubSeq(text, 1, 1),
                                 out |-> a.out, threw |-> FALSE]
      BY <3>2, MatchedIs
    <3> QED
      BY <3>1, <3>3
  <2> HIDE DEF b, c
  <2>5. Character(a, c, params, numParams)
          = [matched |-> 1, potential |-> <<c>>, out |-> a.out, threw |-> FALSE]
    BY <2>2, <2>3 DEF Automata
  <2>6. Character(b, c, params, numParams) = Matched(a, text, 1)
    BY <2>1, <2>4, <2>5
  <2> QED
    BY <1>2, <2>6 DEF b, c
<1>3. CASE i > 1 /\ i <= 10
  <2> DEFINE p == SubSeq(text, 1, i - 1)
  <2>1. b = [matched |-> i - 1, potential |-> p, out |-> a.out, threw |-> FALSE]
    <3>1. i - 1 # 0 /\ i - 1 <= 10
      BY <1>1, <1>3
    <3> QED
      BY <3>1, MatchedIs
  <2>2. c = Prefix[(i - 1) + 1] /\ i - 1 # 10 /\ i - 1 # 0
    BY <1>1, <1>3 DEF GoesOn
  <2> HIDE DEF b, p, c
  <2>3. Character(b, c, params, numParams)
          = [matched |-> (i - 1) + 1, potential |-> Append(p, c), out |-> a.out, threw |-> FALSE]
    BY <1>1, <2>1, <2>2 DEF Character
  <2>4. Append(p, c) = SubSeq(text, 1, i) /\ (i - 1) + 1 = i
    BY <1>1, <1>3, BeginningOf DEF p, c
  <2>5. Matched(a, text, i) = [matched |-> i, potential |-> SubSeq(text, 1, i),
                               out |-> a.out, threw |-> FALSE]
    BY <1>1, <1>3, MatchedIs
  <2> QED
    BY <2>3, <2>4, <2>5 DEF b, c
<1>4. CASE i > 10
  <2> DEFINE p == SubSeq(text, 1, i - 1)
  <2>1. b = [matched |-> 10, potential |-> p, out |-> a.out, threw |-> FALSE]
    <3>1. i - 1 # 0 /\ (i - 1 <= 10 => i - 1 = 10)
      BY <1>1, <1>4
    <3> QED
      BY <3>1, MatchedIs
  <2>2. c # "}"
    <3>1. ~(i <= Len(Prefix))
      BY <1>1, <1>4
    <3> QED
      BY <3>1 DEF GoesOn
  <2> HIDE DEF b, p, c
  <2>3. Character(b, c, params, numParams)
          = [matched |-> 10, potential |-> Append(p, c), out |-> a.out, threw |-> FALSE]
    BY <1>1, <2>1, <2>2 DEF Character
  <2>4. Append(p, c) = SubSeq(text, 1, i)
    BY <1>1, <1>4, BeginningOf DEF p, c
  <2>5. Matched(a, text, i) = [matched |-> 10, potential |-> SubSeq(text, 1, i),
                               out |-> a.out, threw |-> FALSE]
    <3>1. ~(i <= 10) /\ i # 0
      BY <1>1, <1>4
    <3> QED
      BY <3>1, MatchedIs
  <2> QED
    BY <2>3, <2>4, <2>5 DEF b, c
<1> QED
  BY <1>1, <1>2, <1>3, <1>4

(* A text all of whose characters but the last go on with a placeholder.    *)
LEMMA AllButLast ==
  ASSUME NEW a, Fresh(a), NEW text \in Text, text # <<>>, NEW params, NEW numParams,
         \A i \in 1..(Len(text) - 1) : GoesOn(text, i)
  PROVE  Characters(a, text, params, numParams)
           = Character(Matched(a, text, Len(text) - 1), text[Len(text)], params, numParams)
<1> DEFINE n == Len(text)
           last == Character(Matched(a, text, n - 1), text[n], params, numParams)
<1>1. n \in Nat /\ n >= 1
  BY DEF Text
<1>2. PICK f : f = [i \in 0..n |-> IF i = n THEN last ELSE Matched(a, text, i)]
  OBVIOUS
<1> HIDE DEF last
<1>3. ASSUME NEW i \in 0..n
      PROVE  f[i] = IF i = 0 THEN a ELSE Character(f[i - 1], text[i], params, numParams)
  <2>1. CASE i = 0
    BY <1>1, <1>2, <2>1 DEF Matched
  <2>2. CASE i # 0
    <3>1. i \in 1..n /\ i - 1 \in 0..n /\ i - 1 # n
      BY <1>1, <2>2
    <3>2. f[i - 1] = Matched(a, text, i - 1)
      BY <1>2, <3>1
    <3>3. CASE i = n
      <4>1. f[i] = last
        BY <1>2, <3>3
      <4> QED
        BY <2>2, <3>2, <3>3, <4>1 DEF last
    <3>4. CASE i # n
      <4>1. i \in 1..(n - 1)
        BY <1>1, <3>1, <3>4
      <4>2. f[i] = Matched(a, text, i)
        BY <1>2, <3>4
      <4>3. GoesOn(text, i)
        BY <4>1
      <4>4. Character(Matched(a, text, i - 1), text[i], params, numParams) = Matched(a, text, i)
        BY SMTT(30), <3>1, <4>3, MatchedOneMore
      <4> QED
        BY <2>2, <3>2, <4>2, <4>4
    <3> QED
      BY <3>3, <3>4
  <2> QED
    BY <2>1, <2>2
<1>4. f = [i \in 0..n |-> IF i = 0 THEN a ELSE Character(f[i - 1], text[i], params, numParams)]
  BY <1>2, <1>3
<1>5. GoesThrough(f, a, text, params, numParams)
  BY <1>4 DEF GoesThrough
<1>6. Characters(a, text, params, numParams) = f[n]
  BY <1>5, CharactersAre
<1>7. f[n] = last
  BY <1>1, <1>2
<1> QED
  BY <1>6, <1>7 DEF last

(* What a piece leaves of the automaton: a literal is put out, what may     *)
(* still become a placeholder is kept, and a placeholder is replaced.       *)
LEMMA BrokenOff ==
  ASSUME NEW a, Fresh(a), NEW text \in Text, BreaksOff(text), NEW params, NEW numParams,
         NEW b, b = Characters(a, text, params, numParams)
  PROVE  /\ Fresh(b) /\ b.out = a.out \o text
         /\ Len(text) = 1 => b.potential = <<>>
<1> DEFINE n == Len(text)
           c == text[n]
           m == Matched(a, text, n - 1)
<1>1. text # <<>> /\ n <= Len(Prefix) /\ c # Prefix[n] /\ \A i \in 1..(n - 1) : text[i] = Prefix[i]
  BY DEF BreaksOff
<1>2. n \in Nat /\ n >= 1 /\ Len(Prefix) = 10
  <2>1. n \in Nat /\ n >= 1
    BY <1>1 DEF Text
  <2> QED
    BY <2>1, PrefixFacts
<1>3. \A i \in 1..(n - 1) : GoesOn(text, i)
  <2> SUFFICES ASSUME NEW i \in 1..(n - 1) PROVE GoesOn(text, i)
    OBVIOUS
  <2>1. text[i] = Prefix[i]
    BY <1>1
  <2>2. i <= Len(Prefix)
    <3> HIDE DEF n
    <3> QED
      BY <1>1, <1>2
  <2> QED
    BY <2>1, <2>2 DEF GoesOn
<1>4. b = Character(m, c, params, numParams)
  BY <1>1, <1>3, AllButLast
<1>5. a \in Automata /\ a.matched = 0 /\ a.threw = FALSE /\ a.out \in Text
  BY DEF Fresh, Automata
<1>6. n \in 1..n /\ c \in Alphabet
  <2>1. n \in 1..n
    BY <1>2
  <2> QED
    BY <2>1, BeginningOf
<1>7. CASE n = 1
  <2>1. m = a /\ c # Prefix[1]
    BY <1>1, <1>7 DEF Matched
  <2>2. text = <<c>>
    BY <1>6, <1>7, BeginningOf
  <2> HIDE DEF c, m
  <2>3. b = [a EXCEPT !.potential = <<>>, !.out = Append(a.out, c)]
    <3>1. b = Character(a, c, params, numParams) /\ a.matched = 0 /\ a.threw = FALSE /\ c # Prefix[1]
      BY <1>4, <1>5, <2>1
    <3>2. a.matched # Len(Prefix) /\ a.matched + 1 = 1
      BY <3>1, PrefixLength
    <3> QED
      BY <3>1, <3>2 DEF Character
  <2>4. a.out \o text = Append(a.out, c) /\ Append(a.out, c) \in Text /\ <<>> \in Text
    <3>1. a.out \o <<c>> = Append(a.out, c) /\ Append(a.out, c) \in Text /\ <<>> \in Text
      BY <1>5, <1>6 DEF Text
    <3> QED
      BY <2>2, <3>1
  <2> QED
    BY <1>5, <2>3, <2>4 DEF Automata, Fresh
<1>8. CASE n # 1
  <2> DEFINE p == SubSeq(text, 1, n - 1)
  <2>1. m = [matched |-> n - 1, potential |-> p, out |-> a.out, threw |-> FALSE]
    <3>1. n - 1 # 0 /\ n - 1 <= 10
      BY <1>1, <1>2, <1>8
    <3> QED
      BY <3>1, MatchedIs
  <2>2. n - 1 # 10 /\ n - 1 # 0 /\ (n - 1) + 1 = n /\ n > 1
    <3>1. n <= 10
      BY <1>1, <1>2
    <3> HIDE DEF n
    <3> QED
      BY <1>2, <1>8, <3>1
  <2>3. Append(p, c) = text
    <3>1. SubSeq(text, 1, n) = Append(p, c) /\ SubSeq(text, 1, n) = text
      BY <1>6, <2>2, BeginningOf
    <3> QED
      BY <3>1
  <2>4. p \in Text
    <3>1. n - 1 \in 1..n
      BY <1>2, <2>2
    <3> QED
      BY <3>1, BeginningOf
  <2>5. a.out \o text \in Text
    BY <1>5 DEF Text
  <2>6. c # Prefix[(n - 1) + 1]
    BY <1>1, <2>2
  <2> HIDE DEF m, p, c, n
  <2>7. b = [matched |-> 0, potential |-> p, out |-> a.out \o Append(p, c), threw |-> FALSE]
    BY <1>2, <1>4, <2>1, <2>2, <2>6 DEF Character, Mismatch
  <2> QED
    BY <1>8, <2>3, <2>4, <2>5, <2>7 DEF Automata, Fresh, n
<1> QED
  BY <1>7, <1>8

Keeps(b, a, text) == b.threw = FALSE /\ b.out = a.out /\ b.potential = text

LEMMA LeftOver ==
  ASSUME NEW a, Fresh(a), NEW text \in Text, Unfinished(text), NEW params, NEW numParams,
         NEW b, b = Characters(a, text, params, numParams)
  PROVE  Keeps(b, a, text)
<1> DEFINE n == Len(text)
<1>1. text # <<>> /\ \A i \in 1..n : GoesOn(text, i)
  BY DEF Unfinished, GoesOn
<1>2. n \in Nat /\ n >= 1
  BY <1>1 DEF Text
<1>3. b = Character(Matched(a, text, n - 1), text[n], params, numParams)
  <2>1. \A i \in 1..(n - 1) : GoesOn(text, i)
    BY <1>1, <1>2
  <2> QED
    BY <1>1, <2>1, AllButLast
<1>4. n \in 1..n /\ n # 0
  BY <1>2
<1>5. b = Matched(a, text, n)
  BY <1>1, <1>3, <1>4, MatchedOneMore
<1>6. SubSeq(text, 1, n) = text
  BY <1>4, BeginningOf
<1> HIDE DEF n
<1>7. b.threw = FALSE /\ b.out = a.out /\ b.potential = SubSeq(text, 1, n)
  BY <1>4, <1>5 DEF Matched
<1> QED
  BY <1>6, <1>7 DEF Keeps

LEMMA PlaceholderText ==
  ASSUME NEW i \in 0..9
  PROVE  LET text == Placeholder(i).text
         IN  /\ text \in Text /\ Len(text) = 12 /\ text # <<>> /\ text[12] = "}"
             /\ \A j \in 1..10 : text[j] = Prefix[j]
             /\ text[11] = Digits[i + 1] /\ Digits[i + 1] # "}" /\ Placeholder(i).index = i
<1> DEFINE d == Digits[i + 1]
           e == <<d, "}">>
<1>1. i + 1 \in 1..10
  OBVIOUS
<1>2. d \in Alphabet /\ "}" \in Alphabet
  BY <1>1, PrefixFacts
<1>3. d # "}"
  <2>1. /\ Digits[1] = "0" /\ Digits[2] = "1" /\ Digits[3] = "2" /\ Digits[4] = "3"
        /\ Digits[5] = "4" /\ Digits[6] = "5" /\ Digits[7] = "6" /\ Digits[8] = "7"
        /\ Digits[9] = "8" /\ Digits[10] = "9"
    BY DEF Digits
  <2>2. \/ i + 1 = 1 \/ i + 1 = 2 \/ i + 1 = 3 \/ i + 1 = 4 \/ i + 1 = 5
        \/ i + 1 = 6 \/ i + 1 = 7 \/ i + 1 = 8 \/ i + 1 = 9 \/ i + 1 = 10
    OBVIOUS
  <2> QED
    BY <2>1, <2>2
<1>4. Placeholder(i).text = Prefix \o e /\ Placeholder(i).index = i
  BY DEF Placeholder
<1> HIDE DEF d
<1>5. e \in Text /\ Len(e) = 2 /\ e[1] = d /\ e[2] = "}"
  BY <1>2, OneAndTwo DEF Text
<1>6. Prefix \in Text /\ Len(Prefix) = 10
  BY PrefixFacts
<1> HIDE DEF e
<1> DEFINE text == Prefix \o e
<1>7. /\ text \in Text /\ Len(text) = Len(Prefix) + Len(e)
      /\ \A j \in 1..Len(Prefix) : text[j] = Prefix[j]
      /\ \A j \in 1..Len(e) : text[Len(Prefix) + j] = e[j]
  <2>1. e \in Seq(Alphabet)
    BY <1>5 DEF Text
  <2>2. Prefix \in Seq(Alphabet)
    BY <1>6 DEF Text
  <2> QED
    BY <2>1, <2>2, Joined DEF Text
<1> HIDE DEF text
<1>8. Len(text) = 12 /\ \A j \in 1..10 : text[j] = Prefix[j]
  <2>1. Len(e) = 2
    BY <1>5
  <2>2. Len(text) = Len(Prefix) + Len(e) /\ \A j \in 1..Len(Prefix) : text[j] = Prefix[j]
    BY <1>7
  <2> QED
    BY <2>1, <2>2, PrefixLength
<1>9. text[11] = e[1] /\ text[12] = e[2]
  <2> DEFINE k == Len(e)
  <2>0. k = 2
    BY <1>5
  <2> HIDE DEF k
  <2>1. 1 \in 1..Len(e) /\ 2 \in 1..Len(e)
    BY <2>0 DEF k
  <2>2. text[Len(Prefix) + 1] = e[1] /\ text[Len(Prefix) + 2] = e[2]
    BY <1>7, <2>1
  <2>3. Len(Prefix) + 1 = 11 /\ Len(Prefix) + 2 = 12
    BY PrefixLength
  <2> QED
    BY <2>2, <2>3
<1>10. text # <<>>
  <2>1. Len(text) = 12
    BY <1>8
  <2>2. Len(<<>>) = 0
    OBVIOUS
  <2> QED
    BY <2>1, <2>2
<1> QED
  BY <1>3, <1>4, <1>5, <1>7, <1>8, <1>9, <1>10 DEF d, text

LEMMA Replaced ==
  ASSUME NEW a, Fresh(a), NEW i \in 0..9, NEW params, NEW numParams \in Nat,
         NEW b, b = Characters(a, Placeholder(i).text, params, numParams)
  PROVE  /\ b.threw <=> i >= numParams
         /\ i < numParams => b = [Begin EXCEPT !.out = a.out \o params[i + 1]]
<1> DEFINE text == Placeholder(i).text
           m == Matched(a, text, 11)
           p == SubSeq(text, 1, 11)
<1>1. /\ text \in Text /\ Len(text) = 12 /\ text # <<>> /\ text[12] = "}"
      /\ \A j \in 1..10 : text[j] = Prefix[j]
      /\ text[11] = Digits[i + 1] /\ Digits[i + 1] # "}"
  BY PlaceholderText
<1> HIDE DEF text
<1>2. \A j \in 1..(Len(text) - 1) : GoesOn(text, j)
  <2>3. Len(text) - 1 = 11
    <3>1. Len(text) = 12
      BY <1>1
    <3> QED
      BY <3>1
  <2> SUFFICES ASSUME NEW j \in 1..11 PROVE GoesOn(text, j)
    BY <2>3
  <2>1. j <= 10 => j \in 1..10
    OBVIOUS
  <2>2. ~(j <= 10) => j = 11
    OBVIOUS
  <2> QED
    BY <1>1, <2>1, <2>2, PrefixFacts DEF GoesOn
<1>3. b = Character(m, "}", params, numParams)
  <2>1. b = Character(Matched(a, text, Len(text) - 1), text[Len(text)], params, numParams)
    <3>1. b = Characters(a, text, params, numParams) /\ text \in Text /\ text # <<>>
      BY <1>1 DEF text
    <3> QED
      BY <1>2, <3>1, AllButLast
  <2>2. Len(text) - 1 = 11
    <3>1. Len(text) = 12
      BY <1>1
    <3> QED
      BY <3>1
  <2> QED
    BY <1>1, <2>1, <2>2
<1>4. m = [matched |-> 10, potential |-> p, out |-> a.out, threw |-> FALSE]
  <2>1. ~(11 <= 10) /\ 11 # 0
    OBVIOUS
  <2> QED
    BY <2>1, MatchedIs
<1>5. AtoI(SubSeq(p, Len(Prefix) + 1, Len(p))) = i
  <2>1. p \in Text /\ Len(p) = 11 /\ p[11] = text[11]
    <3>1. text \in Seq(Alphabet)
      BY <1>1 DEF Text
    <3>2. 11 \in 1..Len(text)
      <4>1. Len(text) = 12
        BY <1>1
      <4> QED
        BY <4>1
    <3>3. p \in Seq(Alphabet) /\ Len(p) = 11 /\ p[11] = text[11]
      BY <3>1, <3>2, Shortened
    <3> QED
      BY <3>3 DEF Text
  <2> HIDE DEF p
  <2>2. SubSeq(p, 11, 11) = <<p[11]>>
    <3> DEFINE c == p[11]
    <3>1. SubSeq(p, 11, 10) = <<>> /\ SubSeq(p, 11, 11) = Append(SubSeq(p, 11, 10), c)
      BY <2>1 DEF Text
    <3> HIDE DEF c
    <3>2. Append(<<>>, c) = <<c>>
      OBVIOUS
    <3> QED
      BY <3>1, <3>2 DEF c
  <2>3. Len(Prefix) + 1 = 11
    BY PrefixLength
  <2>4. SubSeq(p, Len(Prefix) + 1, Len(p)) = <<Digits[i + 1]>>
    BY <1>1, <2>1, <2>2, <2>3
  <2> QED
    BY <2>4, DigitValue
<1> HIDE DEF m, p
<1>6. b = Substituted(m, params, numParams)
  BY <1>3, <1>4, PrefixFacts DEF Character
<1>7. b = IF i >= numParams THEN [m EXCEPT !.threw = TRUE]
                             ELSE [Begin EXCEPT !.out = m.out \o params[i + 1]]
  BY <1>4, <1>5, <1>6 DEF Substituted
<1>8. i \in Nat
  OBVIOUS
<1>9. CASE i >= numParams
  <2>1. b = [matched |-> 10, potential |-> p, out |-> a.out, threw |-> TRUE]
    BY <1>4, <1>7, <1>9
  <2> QED
    BY <1>8, <1>9, <2>1
<1>10. CASE ~(i >= numParams)
  <2>1. b = [Begin EXCEPT !.out = a.out \o params[i + 1]]
    BY <1>4, <1>7, <1>10
  <2>2. b.threw = FALSE
    BY <2>1 DEF Begin
  <2> QED
    BY <1>10, <2>1, <2>2
<1> QED
  BY <1>9, <1>10

(* What the pieces become, one sequence more with each of them.             *)
PieceSet == [text : Text, index : -1..9]
Becomes(piece, params) == IF piece.index < 0 THEN piece.text ELSE params[piece.index + 1]
Filled(pieces, params) == [i \in DOMAIN pieces |-> Becomes(pieces[i], params)]
InRange(pieces, n) == \A i \in DOMAIN pieces : pieces[i].index < n

LEMMA BecomesText ==
  ASSUME NEW params \in Seq(Text), NEW piece \in PieceSet, piece.index < Len(params)
  PROVE  Becomes(piece, params) \in Text
<1>1. piece.text \in Text /\ piece.index \in -1..9 /\ Len(params) \in Nat
  BY DEF PieceSet
<1>2. ~(piece.index < 0) => piece.index + 1 \in 1..Len(params)
  BY <1>1
<1>3. \A j \in 1..Len(params) : params[j] \in Text
  OBVIOUS
<1> QED
  BY <1>1, <1>2, <1>3 DEF Becomes

LEMMA FilledSeq ==
  ASSUME NEW params \in Seq(Text), NEW pieces \in Seq(PieceSet), InRange(pieces, Len(params))
  PROVE  Filled(pieces, params) \in Seq(Text) /\ Len(Filled(pieces, params)) = Len(pieces)
<1>1. DOMAIN pieces = 1..Len(pieces) /\ Len(pieces) \in Nat
      /\ \A i \in 1..Len(pieces) : pieces[i] \in PieceSet
  OBVIOUS
<1>2. ASSUME NEW i \in 1..Len(pieces) PROVE Becomes(pieces[i], params) \in Text
  <2>1. pieces[i] \in PieceSet /\ pieces[i].index < Len(params)
    BY <1>1 DEF InRange
  <2> QED
    BY <2>1, BecomesText
<1> DEFINE n == Len(pieces)
           f == Filled(pieces, params)
<1>3. f \in [1..n -> Text] /\ n \in Nat
  BY <1>1, <1>2 DEF Filled
<1> HIDE DEF n, f
<1>4. f \in Seq(Text) /\ Len(f) = n
  BY <1>3
<1> QED
  BY <1>4 DEF n, f

LEMMA AppendIs ==
  ASSUME NEW S, NEW f \in Seq(S), NEW x
  PROVE  Append(f, x) = [i \in 1..(Len(f) + 1) |-> IF i <= Len(f) THEN f[i] ELSE x]
<1> DEFINE g == Append(f, x)
           n == Len(f)
           h == [i \in 1..(n + 1) |-> IF i <= n THEN f[i] ELSE x]
<1>1. /\ n \in Nat /\ g \in Seq(S \cup {x}) /\ Len(g) = n + 1
      /\ \A i \in 1..n : g[i] = f[i]
      /\ g[n + 1] = x
  OBVIOUS
<1> HIDE DEF g, n
<1>2. g = [i \in 1..(n + 1) |-> g[i]]
  BY <1>1
<1>3. \A i \in 1..(n + 1) : g[i] = IF i <= n THEN f[i] ELSE x
  <2> SUFFICES ASSUME NEW i \in 1..(n + 1) PROVE g[i] = IF i <= n THEN f[i] ELSE x
    OBVIOUS
  <2>1. i <= n => i \in 1..n
    BY <1>1
  <2>2. ~(i <= n) => i = n + 1
    BY <1>1
  <2> QED
    BY <1>1, <2>1, <2>2
<1>4. g = h
  BY <1>2, <1>3
<1> QED
  BY <1>4 DEF g, n

LEMMA FilledAppend ==
  ASSUME NEW params \in Seq(Text), NEW pieces \in Seq(PieceSet), InRange(pieces, Len(params)),
         NEW piece \in PieceSet, piece.index < Len(params)
  PROVE  FlattenSeq(Filled(Append(pieces, piece), params))
           = FlattenSeq(Filled(pieces, params)) \o Becomes(piece, params)
<1> DEFINE n == Len(pieces)
           k == n + 1
           more == Append(pieces, piece)
           f == Filled(pieces, params)
           g == Filled(more, params)
           x == Becomes(piece, params)
<1>1. /\ n \in Nat /\ DOMAIN pieces = 1..n /\ DOMAIN more = 1..k
      /\ \A i \in 1..n : more[i] = pieces[i]
      /\ more[k] = piece
  OBVIOUS
<1>2. f \in Seq(Text) /\ Len(f) = n /\ x \in Text
  BY FilledSeq, BecomesText
<1>3. \A i \in 1..n : f[i] = Becomes(pieces[i], params)
  BY <1>1 DEF Filled
<1>4. g = [i \in 1..k |-> Becomes(more[i], params)]
  BY <1>1 DEF Filled
<1> HIDE DEF more, f, g, x
<1>5. \A i \in 1..n : g[i] = f[i]
  BY <1>1, <1>3, <1>4
<1>6. g[k] = x
  <2>1. k \in 1..k
    BY <1>1
  <2> HIDE DEF k
  <2> QED
    BY <1>1, <1>4, <2>1 DEF x
<1>7. DOMAIN g = 1..(n + 1) /\ g = [i \in 1..(n + 1) |-> g[i]]
  BY <1>4
<1>8. g = Append(f, x)
  <2> HIDE DEF n
  <2>1. Append(f, x) = [i \in 1..(n + 1) |-> IF i <= n THEN f[i] ELSE x]
    <3>1. f \in Seq(Text) /\ Len(f) = n
      BY <1>2
    <3> QED
      BY <3>1, AppendIs
  <2>2. ASSUME NEW i \in 1..(n + 1) PROVE g[i] = IF i <= n THEN f[i] ELSE x
    <3>1. i <= n => i \in 1..n
      BY <1>1
    <3>2. ~(i <= n) => i = k
      BY <1>1
    <3> QED
      BY <1>5, <1>6, <3>1, <3>2
  <2> QED
    BY <1>7, <2>1, <2>2
<1>9. f \in Seq(Seq(Alphabet)) /\ x \in Seq(Alphabet)
  BY <1>2 DEF Text
<1>10. FlattenSeq(Append(f, x)) = FlattenSeq(f) \o x
  BY <1>9, FlattenAppend
<1> QED
  BY <1>8, <1>10 DEF more, f, g, x

(* The reference, by what the pieces become.                                *)
LEMMA ReferenceIs ==
  ASSUME NEW params, NEW n, NEW pieces
  PROVE  Reference(pieces, params, n)
           = IF Len(params) < n \/ \E i \in DOMAIN pieces : pieces[i].index >= n
             THEN Threw ELSE Returned(FlattenSeq(Filled(pieces, params)))
BY DEF Reference, Filled, Becomes

(* A call that goes through a template: what has been put out is what the   *)
(* pieces become, and the automaton is between two of them.                 *)
Given(c) == c.params \in Seq(Text) /\ c.numParams \in Nat

GoneThrough(pieces, c, a) ==
  /\ pieces \in Seq(PieceSet)
  /\ InRange(pieces, c.numParams)
  /\ c.numParams <= Len(c.params)
  /\ Fresh(a)
  /\ a.out = FlattenSeq(Filled(pieces, c.params))

LEMMA LiteralPiece ==
  ASSUME NEW piece, IsLiteral(piece)
  PROVE  piece \in PieceSet /\ piece.index = -1 /\ piece.text \in Text
<1>1. piece = [text |-> piece.text, index |-> -1] /\ piece.text \in Text
  BY DEF IsLiteral, Literal, Text
<1>2. -1 \in -1..9
  OBVIOUS
<1> QED
  BY <1>1, <1>2 DEF PieceSet

LEMMA PlaceholderPiece ==
  ASSUME NEW piece, IsPlaceholder(piece)
  PROVE  piece \in PieceSet /\ \E i \in 0..9 : piece = Placeholder(i) /\ piece.index = i
<1>1. PICK i \in 0..9 : piece = Placeholder(i)
  <2>1. Len(Digits) - 1 = 9
    BY DEF Digits
  <2> QED
    BY <2>1 DEF IsPlaceholder
<1>2. Placeholder(i).text \in Text /\ Placeholder(i).index = i
  BY PlaceholderText, Zenon
<1>4. i \in -1..9
  OBVIOUS
<1>3. Placeholder(i) \in PieceSet
  <2>1. Placeholder(i) = [text |-> Placeholder(i).text, index |-> Placeholder(i).index]
    BY DEF Placeholder
  <2> QED
    BY <1>2, <1>4, <2>1 DEF PieceSet
<1> QED
  BY <1>1, <1>2, <1>3

LEMMA PieceAppended ==
  ASSUME NEW c, Given(c), NEW pieces, NEW a, GoneThrough(pieces, c, a),
         NEW piece \in PieceSet, piece.index < c.numParams,
         NEW b, Fresh(b), b.out = a.out \o Becomes(piece, c.params),
         NEW more, more = Append(pieces, piece)
  PROVE  GoneThrough(more, c, b)
<1> DEFINE params == c.params
           n == c.numParams
<1>1. params \in Seq(Text) /\ n \in Nat /\ Len(params) \in Nat /\ n <= Len(params)
  BY DEF Given, GoneThrough
<1>2. pieces \in Seq(PieceSet) /\ InRange(pieces, n) /\ Fresh(a)
      /\ a.out = FlattenSeq(Filled(pieces, params))
  BY DEF GoneThrough
<1>3. piece \in PieceSet /\ piece.index < n /\ b.out = a.out \o Becomes(piece, params)
  OBVIOUS
<1> HIDE DEF params, n
<1>4. /\ more \in Seq(PieceSet) /\ DOMAIN more = 1..(Len(pieces) + 1)
      /\ Len(pieces) \in Nat /\ DOMAIN pieces = 1..Len(pieces)
      /\ \A i \in 1..Len(pieces) : more[i] = pieces[i]
      /\ more[Len(pieces) + 1] = piece
  BY <1>2, <1>3
<1>5. InRange(pieces, Len(params))
  <2>1. \A i \in 1..Len(pieces) : pieces[i] \in PieceSet /\ pieces[i].index < n
    BY SMTT(30), <1>2, <1>4 DEF InRange
  <2>2. \A i \in 1..Len(pieces) : pieces[i].index \in -1..9 /\ pieces[i].index < n
    BY <2>1 DEF PieceSet
  <2>3. ASSUME NEW i \in 1..Len(pieces) PROVE pieces[i].index < Len(params)
    <3>1. pieces[i].index \in -1..9 /\ pieces[i].index < n
      BY <2>2
    <3> QED
      BY <1>1, <3>1
  <2> QED
    BY <1>4, <2>3 DEF InRange
<1>6. InRange(more, n)
  <2> SUFFICES ASSUME NEW i \in 1..(Len(pieces) + 1) PROVE more[i].index < n
    BY <1>4 DEF InRange
  <2>1. CASE i \in 1..Len(pieces)
    BY <1>2, <1>4, <2>1 DEF InRange
  <2>2. CASE i = Len(pieces) + 1
    BY <1>3, <1>4, <2>2
  <2> QED
    BY <1>4, <2>1, <2>2
<1> QED
  <2>1. piece.index < Len(params)
    <3>1. piece.index \in -1..9
      BY <1>3 DEF PieceSet
    <3> QED
      BY <1>1, <1>3, <3>1
  <2>2. FlattenSeq(Filled(more, params)) = FlattenSeq(Filled(pieces, params)) \o Becomes(piece, params)
    BY <1>1, <1>2, <1>3, <1>5, <2>1, FilledAppend
  <2>3. b.out = FlattenSeq(Filled(more, params))
    BY <1>2, <1>3, <2>2
  <2> QED
    BY <1>1, <1>4, <1>6, <2>3 DEF GoneThrough, params, n

LEMMA AutomatonOf ==
  ASSUME NEW m \in 0..10, NEW p \in Text, NEW o \in Text, NEW t \in BOOLEAN
  PROVE  [matched |-> m, potential |-> p, out |-> o, threw |-> t] \in Automata
BY DEF Automata

LEMMA PutOut ==
  ASSUME NEW x \in Text, NEW b, b = [Begin EXCEPT !.out = x]
  PROVE  Fresh(b) /\ b.out = x /\ b.potential = <<>>
<1> DEFINE e == <<>>
<1>1. b = [matched |-> 0, potential |-> e, out |-> x, threw |-> FALSE]
  BY DEF Begin
<1>2. e \in Text
  BY DEF Text
<1> HIDE DEF e
<1>3. b \in Automata
  <2>1. 0 \in 0..10
    OBVIOUS
  <2>2. [matched |-> 0, potential |-> e, out |-> x, threw |-> FALSE] \in Automata
    BY <1>2, <2>1, AutomatonOf
  <2> QED
    BY <1>1, <2>2
<1>4. b.matched = 0 /\ b.potential = e /\ b.out = x /\ b.threw = FALSE
  BY <1>1
<1> QED
  BY <1>3, <1>4 DEF Fresh, e

(* A piece in the middle of a template.                                     *)
LEMMA AnotherPiece ==
  ASSUME NEW c, Given(c), NEW pieces, NEW a, GoneThrough(pieces, c, a),
         NEW piece, \/ IsPlaceholder(piece)
                    \/ IsLiteral(piece) /\ BreaksOff(piece.text),
         NEW b, b = Characters(a, piece.text, c.params, c.numParams),
         NEW more, more = Append(pieces, piece)
  PROVE  /\ b.threw => Reference(more, c.params, c.numParams) = Threw
         /\ ~b.threw =>
              /\ GoneThrough(more, c, b)
              /\ b.potential = <<>> \/ (IsLiteral(piece) /\ Len(piece.text) # 1)
<1> DEFINE params == c.params
           n == c.numParams
<1>1. params \in Seq(Text) /\ n \in Nat /\ Len(params) \in Nat /\ n <= Len(params)
  BY DEF Given, GoneThrough
<1>2. pieces \in Seq(PieceSet) /\ InRange(pieces, n) /\ Fresh(a)
      /\ a.out = FlattenSeq(Filled(pieces, params))
  BY DEF GoneThrough
<1>3. piece \in PieceSet
  BY LiteralPiece, PlaceholderPiece
<1> HIDE DEF params, n
<1>4. /\ more \in Seq(PieceSet) /\ DOMAIN more = 1..(Len(pieces) + 1)
      /\ Len(pieces) \in Nat /\ DOMAIN pieces = 1..Len(pieces)
      /\ \A i \in 1..Len(pieces) : more[i] = pieces[i]
      /\ more[Len(pieces) + 1] = piece
  BY <1>2, <1>3
<1>5. ASSUME piece.index < n, Fresh(b), b.out = a.out \o Becomes(piece, params)
      PROVE  GoneThrough(more, c, b)
  BY <1>3, <1>5, PieceAppended DEF params, n
<1>6. CASE IsLiteral(piece) /\ BreaksOff(piece.text)
  <2>1. piece.index = -1 /\ piece.text \in Text
    BY <1>6, LiteralPiece
  <2>2. Fresh(b) /\ b.out = a.out \o piece.text /\ (Len(piece.text) = 1 => b.potential = <<>>)
    <3> DEFINE text == piece.text
    <3>1. Fresh(a) /\ text \in Text /\ BreaksOff(text) /\ b = Characters(a, text, params, n)
      BY <1>2, <1>6, <2>1 DEF params, n
    <3> HIDE DEF text
    <3>2. Fresh(b) /\ b.out = a.out \o text /\ (Len(text) = 1 => b.potential = <<>>)
      BY <3>1, BrokenOff
    <3> QED
      BY <3>2 DEF text
  <2>3. Becomes(piece, params) = piece.text /\ piece.index < n
    BY <1>1, <2>1 DEF Becomes
  <2>4. GoneThrough(more, c, b)
    BY <1>5, <2>2, <2>3
  <2>5. ~b.threw
    BY <2>2 DEF Fresh
  <2>6. b.potential = <<>> \/ (IsLiteral(piece) /\ Len(piece.text) # 1)
    BY <1>6, <2>2
  <2> QED
    BY <2>4, <2>5, <2>6
<1>7. CASE IsPlaceholder(piece)
  <2>1. PICK i \in 0..9 : piece = Placeholder(i) /\ piece.index = i
    BY <1>7, PlaceholderPiece
  <2>2. /\ b.threw <=> i >= n
        /\ i < n => b = [Begin EXCEPT !.out = a.out \o params[i + 1]]
    <3>1. b = Characters(a, Placeholder(i).text, params, n)
      BY <2>1 DEF params, n
    <3> QED
      BY <1>1, <1>2, <3>1, Replaced
  <2>3. CASE i >= n
    <3>1. Len(pieces) + 1 \in DOMAIN more /\ more[Len(pieces) + 1].index >= n
      BY <1>4, <2>1, <2>3
    <3>2. Reference(more, params, n) = Threw
      BY <3>1, ReferenceIs
    <3> QED
      BY <2>2, <2>3, <3>2 DEF params, n
  <2>4. CASE ~(i >= n)
    <3>1. i < n /\ i + 1 \in 1..Len(params)
      BY <1>1, <2>4
    <3>2. Becomes(piece, params) = params[i + 1] /\ params[i + 1] \in Text
      <4>1. params[i + 1] \in Text
        BY <1>1, <3>1
      <4>2. ~(i < 0)
        OBVIOUS
      <4> QED
        BY <2>1, <4>1, <4>2 DEF Becomes
    <3> DEFINE x == a.out \o Becomes(piece, params)
    <3>3. x \in Text
      <4>1. a.out \in Text /\ Becomes(piece, params) \in Text
        BY <1>2, <3>2 DEF Fresh, Automata
      <4> QED
        BY <4>1 DEF Text
    <3>4. b = [Begin EXCEPT !.out = x]
      BY <2>2, <3>1, <3>2
    <3> HIDE DEF x
    <3>5. Fresh(b) /\ b.out = x /\ b.potential = <<>>
      BY <3>3, <3>4, PutOut
    <3>6. GoneThrough(more, c, b)
      BY <1>5, <2>1, <3>1, <3>5 DEF x
    <3>7. ~b.threw
      BY <3>5 DEF Fresh
    <3> QED
      BY <3>5, <3>6, <3>7
  <2> QED
    BY <2>3, <2>4
<1> QED
  BY <1>6, <1>7

(* The piece with which a template ends.                                    *)
EndsWith(pieces, c, b) ==
  Reference(pieces, c.params, c.numParams)
    = IF b.threw THEN Threw ELSE Returned(b.out \o b.potential)

LEMMA EndOfTemplate ==
  ASSUME NEW c, Given(c), NEW pieces, NEW a, GoneThrough(pieces, c, a),
         NEW piece \in LastPieces,
         NEW b, b = Characters(a, piece.text, c.params, c.numParams),
         NEW more, more = Append(pieces, piece)
  PROVE  EndsWith(more, c, b)
<1> DEFINE params == c.params
           n == c.numParams
<1>1. params \in Seq(Text) /\ n \in Nat /\ Len(params) \in Nat /\ n <= Len(params)
  BY DEF Given, GoneThrough
<1> HIDE DEF params, n
<1>2. ASSUME NEW d, GoneThrough(more, c, d)
      PROVE  Reference(more, params, n) = Returned(d.out)
  <2>1. more \in Seq(PieceSet) /\ InRange(more, n) /\ d.out = FlattenSeq(Filled(more, params))
    BY <1>2 DEF GoneThrough, params, n
  <2>2. \A i \in DOMAIN more : ~(more[i].index >= n)
    <3> SUFFICES ASSUME NEW i \in DOMAIN more PROVE ~(more[i].index >= n)
      OBVIOUS
    <3>1. more[i] \in PieceSet
      BY <2>1
    <3>2. more[i].index \in -1..9
      BY <3>1 DEF PieceSet
    <3>3. more[i].index < n
      BY <2>1 DEF InRange
    <3> QED
      BY <1>1, <3>2, <3>3
  <2>3. ~(Len(params) < n)
    BY <1>1
  <2> QED
    BY <2>1, <2>2, <2>3, ReferenceIs
<1>3. CASE IsPlaceholder(piece) \/ (IsLiteral(piece) /\ BreaksOff(piece.text) /\ Len(piece.text) = 1)
  <2>1. /\ b.threw => Reference(more, params, n) = Threw
        /\ ~b.threw => /\ GoneThrough(more, c, b)
                       /\ b.potential = <<>> \/ (IsLiteral(piece) /\ Len(piece.text) # 1)
    <3>1. IsPlaceholder(piece) \/ (IsLiteral(piece) /\ BreaksOff(piece.text))
      BY <1>3
    <3> QED
      BY <3>1, AnotherPiece DEF params, n
  <2>2. IsPlaceholder(piece) => ~IsLiteral(piece)
    <3> SUFFICES ASSUME IsPlaceholder(piece), IsLiteral(piece) PROVE FALSE
      OBVIOUS
    <3>1. piece.index \in 0..9
      BY PlaceholderPiece
    <3>2. piece.index = -1
      BY LiteralPiece
    <3> QED
      BY <3>1, <3>2
  <2>3. ASSUME ~b.threw PROVE Reference(more, params, n) = Returned(b.out \o b.potential)
    <3>1. GoneThrough(more, c, b) /\ b.potential = <<>>
      BY <1>3, <2>1, <2>2, <2>3
    <3>2. b.out \in Text
      BY <3>1 DEF GoneThrough, Fresh, Automata
    <3>3. b.out \o <<>> = b.out
      BY <3>2 DEF Text
    <3> QED
      BY <1>2, <3>1, <3>3
  <2> QED
    BY <2>1, <2>3 DEF params, n, EndsWith
<1>4. CASE IsLiteral(piece) /\ Unfinished(piece.text)
  <2>1. piece \in PieceSet /\ piece.index = -1 /\ piece.text \in Text
    BY <1>4, LiteralPiece
  <2>2. Fresh(a) /\ a.out \in Text
    BY DEF GoneThrough, Fresh, Automata
  <2>3. b.threw = FALSE /\ b.out = a.out /\ b.potential = piece.text
    <3> DEFINE text == piece.text
    <3>1. text \in Text /\ Unfinished(text) /\ b = Characters(a, text, params, n)
      BY <1>4, <2>1 DEF params, n
    <3> HIDE DEF text
    <3>2. Fresh(a)
      BY <2>2
    <3>3. Keeps(b, a, text)
      BY <3>1, <3>2, LeftOver
    <3> QED
      BY <3>3 DEF text, Keeps
  <2> DEFINE x == a.out \o piece.text
             d == [Begin EXCEPT !.out = x]
  <2>4. x \in Text
    BY <2>1, <2>2 DEF Text
  <2> HIDE DEF x
  <2>5. GoneThrough(more, c, d)
    <3>1. Fresh(d) /\ d.out = x
      BY <2>4, PutOut
    <3> HIDE DEF d
    <3> QED
      <4>1. Becomes(piece, params) = piece.text /\ piece.index < n
        BY <1>1, <2>1 DEF Becomes
      <4> QED
        BY <2>1, <3>1, <4>1, PieceAppended DEF x, params, n
  <2>6. Reference(more, params, n) = Returned(x)
    <3>1. d.out = x
      BY DEF Begin
    <3> QED
      BY <1>2, <2>5, <3>1
  <2> QED
    BY <2>3, <2>6 DEF x, params, n, EndsWith
<1> QED
  BY <1>3, <1>4, TemplateAssumption DEF EndsWith
(* What holds of a call of getExec at any time: before it there is nothing, *)
(* and while it goes through the template, what it has put out is what the  *)
(* pieces become.                                                           *)
TemplateInv ==
  /\ call = NoCall \/ call = Executing \/ Given(call)
  /\ call = NoCall => exec = <<>> /\ automaton = Begin /\ result = NoResult
  /\ Filling => GoneThrough(exec, call, automaton)
  /\ Substitutes

LEMMA NotGiven == ~(NoCall.numParams >= 0) /\ ~(Executing.numParams >= 0)
BY DEF NoCall, Executing

LEMMA BoundedText ==
  ASSUME NEW params \in BoundedSeq(Params, MaxParams)
  PROVE  params \in Seq(Text)
<1>1. MaxParams \in Nat /\ Params \subseteq Text
  BY TemplateAssumption DEF Text
<1>2. PICK m \in 0..MaxParams : params \in [1..m -> Params]
  BY DEF BoundedSeq, SeqOf
<1>3. m \in Nat /\ params \in [1..m -> Text]
  BY <1>1, <1>2
<1> QED
  BY <1>3

LEMMA TemplateBegins == FillInit => TemplateInv
<1> SUFFICES ASSUME FillInit PROVE TemplateInv
  OBVIOUS
<1>1. call = NoCall /\ exec = <<>> /\ automaton = Begin /\ result = NoResult
  BY DEF FillInit
<1>2. ~Filling
  BY <1>1, NotGiven DEF Filling
<1>3. ~result.returned
  BY <1>1 DEF NoResult
<1> QED
  BY <1>1, <1>2, <1>3 DEF TemplateInv, Substitutes

LEMMA TemplateCalled ==
  ASSUME TemplateInv, NEW params \in BoundedSeq(Params, MaxParams), NEW numParams \in 0..MaxParams,
         Call(params, numParams)
  PROVE  TemplateInv'
<1>1. /\ call = NoCall /\ exec = <<>> /\ automaton = Begin
      /\ exec' = <<>> /\ automaton' = Begin
  BY DEF TemplateInv, Call
<1>2. /\ call' = [params |-> params, numParams |-> numParams]
      /\ result' = IF Len(params) < numParams THEN Threw ELSE NoResult
  BY DEF Call
<1>3. params \in Seq(Text) /\ numParams \in Nat /\ Len(params) \in Nat
  <2>1. params \in Seq(Text)
    BY BoundedText
  <2>2. MaxParams \in Nat
    BY TemplateAssumption
  <2> QED
    BY <2>1, <2>2
<1>4. call'.params = params /\ call'.numParams = numParams
  BY <1>2
<1>5. Given(call')
  BY <1>3, <1>4 DEF Given
<1>6. call' # NoCall
  <2>1. call'.numParams >= 0
    BY <1>3, <1>4
  <2> QED
    BY <2>1, NotGiven
<1>7. CASE Len(params) < numParams
  <2>1. result' = Threw
    BY <1>2, <1>7
  <2>2. result'.returned
    BY <2>1 DEF Threw
  <2>3. Reference(exec', call'.params, call'.numParams) = Threw
    BY <1>4, <1>7, ReferenceIs
  <2> QED
    BY <1>5, <1>6, <2>1, <2>2, <2>3 DEF TemplateInv, Filling, Substitutes
<1>8. CASE ~(Len(params) < numParams)
  <2>1. ~result'.returned
    BY <1>2, <1>8 DEF NoResult
  <2>2. GoneThrough(exec', call', automaton')
    <3>1. exec' \in Seq(PieceSet) /\ InRange(exec', numParams)
      BY <1>1 DEF InRange
    <3>2. Fresh(automaton') /\ automaton'.out = <<>>
      <4> DEFINE e == <<>>
      <4>1. e \in Text
        BY DEF Text
      <4>2. automaton' = [Begin EXCEPT !.out = e]
        BY <1>1 DEF Begin
      <4> HIDE DEF e
      <4>3. Fresh(automaton') /\ automaton'.out = e
        BY <4>1, <4>2, PutOut
      <4> QED
        BY <4>3 DEF e
    <3>3. FlattenSeq(Filled(exec', params)) = <<>>
      <4>1. Filled(<<>>, params) = <<>>
        BY DEF Filled
      <4> QED
        BY <1>1, <4>1, FlattenNothing
    <3>4. numParams <= Len(params)
      BY <1>3, <1>8
    <3> QED
      BY <1>4, <3>1, <3>2, <3>3, <3>4 DEF GoneThrough
  <2> QED
    BY <1>5, <1>6, <2>1, <2>2 DEF TemplateInv, Substitutes
<1> QED
  BY <1>7, <1>8

(* A step that goes through a piece.                                        *)
LEMMA TemplateStepped ==
  ASSUME TemplateInv, NEW piece, Fill(piece)
  PROVE  /\ Given(call) /\ call' = call /\ call # NoCall /\ ~result.returned
         /\ GoneThrough(exec, call, automaton)
         /\ exec' = Append(exec, piece)
         /\ automaton' = Characters(automaton, piece.text, call.params, call.numParams)
<1>1. Filling /\ call' = call /\ exec' = Append(exec, piece)
      /\ automaton' = Characters(automaton, piece.text, call.params, call.numParams)
  BY DEF Fill
<1>2. call.numParams >= 0 /\ ~result.returned
  BY <1>1 DEF Filling
<1>3. call # NoCall /\ call # Executing
  BY <1>2, NotGiven
<1> QED
  BY <1>1, <1>2, <1>3 DEF TemplateInv

LEMMA TemplateGoesOn ==
  ASSUME TemplateInv, NEW piece \in Pieces, FillPiece(piece)
  PROVE  TemplateInv'
<1>1. Fill(piece) /\ result' = IF automaton'.threw THEN Threw ELSE result
  BY DEF FillPiece
<1>2. /\ Given(call) /\ call' = call /\ call # NoCall /\ ~result.returned
      /\ GoneThrough(exec, call, automaton)
      /\ exec' = Append(exec, piece)
      /\ automaton' = Characters(automaton, piece.text, call.params, call.numParams)
  BY <1>1, TemplateStepped
<1>3. /\ automaton'.threw => Reference(exec', call.params, call.numParams) = Threw
      /\ ~automaton'.threw => GoneThrough(exec', call, automaton')
  <2>1. IsPlaceholder(piece) \/ (IsLiteral(piece) /\ BreaksOff(piece.text))
    BY TemplateAssumption
  <2> QED
    BY <1>2, <2>1, AnotherPiece
<1>4. CASE automaton'.threw
  <2>1. result' = Threw /\ result'.returned
    BY <1>1, <1>4 DEF Threw
  <2>2. Reference(exec', call'.params, call'.numParams) = Threw
    BY <1>2, <1>3, <1>4
  <2> QED
    BY <1>2, <2>1, <2>2 DEF TemplateInv, Filling, Substitutes
<1>5. CASE ~automaton'.threw
  <2>1. result' = result /\ ~result'.returned
    BY <1>1, <1>2, <1>5
  <2>2. GoneThrough(exec', call', automaton')
    BY <1>2, <1>3, <1>5
  <2> QED
    BY <1>2, <2>1, <2>2 DEF TemplateInv, Substitutes
<1> QED
  BY <1>4, <1>5

LEMMA TemplateEnds ==
  ASSUME TemplateInv, NEW piece \in LastPieces, FillLast(piece)
  PROVE  TemplateInv'
<1> DEFINE b == automaton'
<1>1. Fill(piece) /\ result' = IF b.threw THEN Threw ELSE Returned(b.out \o b.potential)
  BY DEF FillLast
<1>2. /\ Given(call) /\ call' = call /\ call # NoCall
      /\ GoneThrough(exec, call, automaton)
      /\ exec' = Append(exec, piece)
      /\ b = Characters(automaton, piece.text, call.params, call.numParams)
  BY <1>1, TemplateStepped
<1>3. Reference(exec', call.params, call.numParams)
        = IF b.threw THEN Threw ELSE Returned(b.out \o b.potential)
  <2> HIDE DEF b
  <2>1. Given(call) /\ GoneThrough(exec, call, automaton) /\ exec' = Append(exec, piece)
        /\ b = Characters(automaton, piece.text, call.params, call.numParams)
    BY <1>2
  <2>2. EndsWith(exec', call, b)
    BY <2>1, EndOfTemplate
  <2> QED
    BY <2>2 DEF EndsWith
<1>4. result' = Reference(exec', call'.params, call'.numParams)
  BY <1>1, <1>2, <1>3
<1>5. result'.returned
  <2>1. Threw.returned /\ Returned(b.out \o b.potential).returned
    BY DEF Threw, Returned
  <2> QED
    BY <1>1, <2>1
<1> QED
  BY <1>2, <1>4, <1>5 DEF TemplateInv, Filling, Substitutes

LEMMA TemplateKept == TemplateInv /\ [ExecuteNext]_<<vars, fillVars>> => TemplateInv'
<1> SUFFICES ASSUME TemplateInv, [ExecuteNext]_<<vars, fillVars>>
             PROVE  TemplateInv'
  OBVIOUS
<1>1. CASE GetExec
  <2>1. FillNext
    BY <1>1 DEF GetExec
  <2>2. ASSUME NEW params \in BoundedSeq(Params, MaxParams), NEW numParams \in 0..MaxParams,
               Call(params, numParams)
        PROVE  TemplateInv'
    BY <2>2, TemplateCalled
  <2>3. ASSUME NEW piece \in Pieces, FillPiece(piece) PROVE TemplateInv'
    BY <2>3, TemplateGoesOn
  <2>4. ASSUME NEW piece \in LastPieces, FillLast(piece) PROVE TemplateInv'
    BY <2>4, TemplateEnds
  <2> QED
    BY <2>1, <2>2, <2>3, <2>4 DEF FillNext
<1>2. CASE HandOver
  <2>1. call' = Executing /\ result' = NoResult
    BY <1>2 DEF HandOver
  <2>2. ~(call'.numParams >= 0) /\ call' # NoCall
    BY <2>1, NotGiven DEF Executing, NoCall
  <2>3. ~result'.returned
    BY <2>1 DEF NoResult
  <2> QED
    BY <2>1, <2>2, <2>3 DEF TemplateInv, Filling, Substitutes
<1>3. CASE UNCHANGED fillVars
  BY <1>3 DEF TemplateInv, Filling, Substitutes, fillVars
<1> QED
  BY <1>1, <1>2, <1>3 DEF ExecuteNext, Run

(* The invariant of getExec is inductive: between two pieces the automaton  *)
(* is where it began, and it has put out what the pieces gone through       *)
(* become.                                                                  *)
THEOREM TemplateInductive == ExecuteSpec => []TemplateInv
<1>1. ExecuteInit => TemplateInv
  BY TemplateBegins DEF ExecuteInit
<1> QED
  BY <1>1, TemplateKept, PTL DEF ExecuteSpec

(* What Command::getExec returns is the template with each placeholder      *)
(* replaced by its parameter and everything else as it is, and it throws    *)
(* just when a parameter is missing: for templates of any length, any       *)
(* texts and any parameters.                                                *)
THEOREM TemplatesFilledIn == ExecuteSpec => []Substitutes
<1>1. TemplateInv => Substitutes
  BY DEF TemplateInv
<1> QED
  BY <1>1, TemplateInductive, PTL
=============================================================================

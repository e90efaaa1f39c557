--------------------------- MODULE Window_proofs ---------------------------
(***************************************************************************)
(* Proofs about wxRCF, for any number of execute threads, connections and  *)
(* parameters: the hand-over of parameters stays orderly (ParamHandoff),   *)
(* two conversations do not meet on a connection, and nothing deleted is   *)
(* used, each but for what the user has brought about.                     *)
(***************************************************************************)
EXTENDS Window, FiniteSetTheorems, Induction, TLAPS

(***************************************************************************)
(* The inductive invariant of the hand-over.                               *)
(***************************************************************************)
Places == {"enter", "dialog", "closed"}
Typed == Texts \cup {Blank}
Innermost == handlers[1][1]

(* An answer for the thread was given and the thread has not taken it.      *)
Pending(t) == \/ modified /\ forThread = t
              \/ At("closed") /\ Innermost = t

HandoffTypes ==
  /\ pc \in [Threads -> {"run", "wait", "done"}]
  /\ got \in [Threads -> Seq(Typed)] /\ answered \in [Threads -> Seq(Typed)]
  /\ events \in Seq(Threads) /\ handlers \in Seq(Threads \X Places)
  /\ modified \in BOOLEAN /\ forThread \in Threads \cup {NoThread}
  /\ parameter \in Typed /\ nested \in BOOLEAN

(* Only the innermost handler has not shown its dialog, or has closed it.   *)
InnermostOnly == \A i \in 2..Len(handlers) : handlers[i][2] = "dialog"

Entered ==
  depth = IF handlers = <<>> THEN 0
          ELSE IF At("enter") THEN Len(handlers) - 1 ELSE Len(handlers)

(* A thread that waits is in one place only: its event is queued, or it is  *)
(* being handled, or the answer is there for it, unless that was lost.      *)
InOnePlace ==
  /\ \A i \in 1..Len(events) : pc[events[i]] = "wait"
  /\ \A i \in 1..Len(handlers) : pc[handlers[i][1]] = "wait"
  /\ \A i, j \in 1..Len(events) : events[i] = events[j] => i = j
  /\ \A i, j \in 1..Len(handlers) : handlers[i][1] = handlers[j][1] => i = j
  /\ \A i \in 1..Len(events), j \in 1..Len(handlers) : events[i] # handlers[j][1]

AnswerFor ==
  modified =>
    /\ forThread \in Threads /\ pc[forThread] = "wait"
    /\ \A i \in 1..Len(events) : events[i] # forThread
    /\ \A i \in 1..Len(handlers) : handlers[i][1] # forThread

(* What it has taken, and what it may take, was answered to it.             *)
Accounted ==
  \A t \in Threads : /\ Len(got[t]) <= Len(answered[t])
                     /\ Pending(t) => Len(got[t]) < Len(answered[t])

(* As long as no dialog was opened over another one, no answer is lost and  *)
(* the shared parameter is the last answer, or empty.                       *)
InTurn ==
  ~nested =>
    /\ Len(handlers) <= 1
    /\ At("dialog") \/ At("closed") => ~modified
    /\ \A t \in Threads :
         /\ Pending(t) => Len(answered[t]) = Len(got[t]) + 1
         /\ ~Pending(t) => Len(answered[t]) = Len(got[t])
         /\ \A i \in 1..Len(got[t]) : got[t][i] = answered[t][i]
         /\ Pending(t) => parameter = answered[t][Len(answered[t])]
    /\ ~modified /\ ~At("closed") => parameter = Blank

HandoffInv ==
  /\ HandoffTypes /\ InnermostOnly /\ Entered /\ InOnePlace /\ AnswerFor
  /\ Accounted /\ InTurn

(* A thread ends with an exception.                                         *)
Gone(t) ==
  /\ pc[t] = "run" /\ pc' = [pc EXCEPT ![t] = "done"]
  /\ UNCHANGED <<got, events, handlers, depth, parameter, modified, forThread, history>>

(***************************************************************************)
(* The inductive invariant of the window.                                  *)
(***************************************************************************)

(* The rows that are closed and not yet erased.                             *)
ClosedRows == IF window \in Closing THEN {chosen[i] : i \in 1..listing} ELSE {}

WindowTypes ==
  /\ window \in Loops \cup Asking \cup {"gone"}
  /\ vsd \in Seq(Connections) /\ IsInjective(vsd)
  /\ deleted \subseteq Connections /\ deleted \cap Range(vsd) = ClosedRows
  /\ status \in [Connections -> {"Idle", "Processing", "Exception"}]
  /\ lost \subseteq Connections
  /\ chosen \in Seq(Connections) /\ IsInjective(chosen)
  /\ window \in {"list"} \cup Asking => Range(chosen) \subseteq Range(vsd)
  /\ listing \in 0..Len(chosen) /\ (window \in Asking => listing < Len(chosen))
  /\ job \in [Threads -> {"none", "created", "talking", "ended"}]
  /\ on \in [Threads -> Connections \cup {NoThread}]
  /\ \A t \in Threads : job[t] # "none" => on[t] \in Connections
  /\ fate \in {"fine", "mixed", "deleted", "terminated"}
  /\ hasty \in BOOLEAN /\ closedBusy \in BOOLEAN

(* Connections and threads are numbered in the order in which they are made. *)
Numbered ==
  /\ \E n \in Nat : made = 1..n
  /\ window = "connect" => Cardinality(made) < MaxConnections
  /\ \E n \in Nat : tv = 0..(n - 1)

(* A thread asks for parameters while it talks to its server.               *)
WaitersTalk == \A t \in Threads : pc[t] = "wait" => job[t] = "talking"

(* The status of a connection tells of the thread that talks on it, and no  *)
(* other thread is to talk on it, nor is a list asked for.                  *)
OneEach ==
  fate = "fine" /\ ~hasty =>
    /\ \A t \in Threads : job[t] = "talking" => status[on[t]] = "Processing"
    /\ \A t, u \in Threads :
         Unfinished(t) /\ Unfinished(u) /\ on[t] = on[u] => t = u
    /\ window \in {"listing", "list"} =>
         \A t \in Threads : Unfinished(t) => on[t] \notin Range(chosen)

(* A thread whose connection was deleted has ended, or was closed busy.     *)
NoneDeleted ==
  ~closedBusy => \A t \in Threads : Unfinished(t) => on[t] \notin deleted

(* The row that is being closed is none of a thread that has not ended, or  *)
(* it is closed busy.                                                       *)
ClosingIdle ==
  ~closedBusy /\ fate = "fine" /\ window \in Closing =>
    \A t \in Threads : Unfinished(t) => on[t] # chosen[listing + 1]

WindowInv ==
  /\ HandoffInv /\ WindowTypes /\ Numbered /\ WaitersTalk /\ OneEach /\ NoneDeleted
  /\ ClosingIdle /\ ConversationsApart /\ NothingDeletedInUse

-----------------------------------------------------------------------------
(***************************************************************************)
(* What the steps of the GUI do to its nested handlers and its events.     *)
(***************************************************************************)

(* The innermost handler goes on: its place changes, the others stay.       *)
LEMMA BecomesFacts ==
  ASSUME NEW where \in Places, handlers \in Seq(Threads \X Places),
         handlers # <<>>, Becomes(where)
  PROVE  /\ handlers' \in Seq(Threads \X Places)
         /\ Len(handlers') = Len(handlers)
         /\ handlers'[1] = <<Innermost, where>>
         /\ \A i \in 2..Len(handlers) : handlers'[i] = handlers[i]
         /\ \A i \in 1..Len(handlers) : handlers'[i][1] = handlers[i][1]
<1> DEFINE h == [Head(handlers) EXCEPT ![2] = where]
<1>1. Len(handlers) \in Nat \ {0} /\ Head(handlers) = handlers[1]
      /\ handlers[1] \in Threads \X Places
  OBVIOUS
<1>2. h = <<Innermost, where>>
  BY <1>1 DEF Innermost
<1>3. h \in Threads \X Places
  BY <1>1, <1>2 DEF Innermost
<1>4. /\ Tail(handlers) \in Seq(Threads \X Places)
      /\ Len(Tail(handlers)) = Len(handlers) - 1
      /\ \A i \in 1..Len(handlers) - 1 : Tail(handlers)[i] = handlers[i + 1]
  BY <1>1
<1>5. handlers' = <<h>> \o Tail(handlers)
  BY DEF Becomes
<1> HIDE DEF h
<1>6. /\ handlers' \in Seq(Threads \X Places)
      /\ Len(handlers') = 1 + Len(Tail(handlers))
      /\ handlers'[1] = h
      /\ \A i \in 2..1 + Len(Tail(handlers)) : handlers'[i] = Tail(handlers)[i - 1]
  BY <1>3, <1>4, <1>5
<1>7. \A i \in 2..Len(handlers) : handlers'[i] = handlers[i]
  BY <1>1, <1>4, <1>6
<1>8. handlers'[1][1] = handlers[1][1]
  BY <1>2, <1>6 DEF Innermost
<1> QED
  BY <1>1, <1>2, <1>4, <1>6, <1>7, <1>8

(* An event is dispatched: its handler is the innermost one.                *)
LEMMA DispatchFacts ==
  ASSUME handlers \in Seq(Threads \X Places), events \in Seq(Threads),
         events # <<>>, handlers' = <<<<Head(events), "enter">>>> \o handlers,
         events' = Tail(events)
  PROVE  /\ handlers' \in Seq(Threads \X Places)
         /\ Len(handlers') = Len(handlers) + 1
         /\ handlers'[1] = <<events[1], "enter">>
         /\ \A i \in 2..Len(handlers') : handlers'[i] = handlers[i - 1]
         /\ events' \in Seq(Threads) /\ Len(events') = Len(events) - 1
         /\ \A i \in 1..Len(events') : events'[i] = events[i + 1]
<1> DEFINE h == <<Head(events), "enter">>
<1>1. Head(events) = events[1] /\ events[1] \in Threads /\ Len(events) \in Nat \ {0}
  OBVIOUS
<1>2. h \in Threads \X Places /\ h = <<events[1], "enter">>
  BY <1>1 DEF Places
<1>3. handlers' = <<h>> \o handlers
  OBVIOUS
<1> HIDE DEF h
<1>4. /\ handlers' \in Seq(Threads \X Places)
      /\ Len(handlers') = Len(handlers) + 1
      /\ handlers'[1] = h
      /\ \A i \in 2..Len(handlers) + 1 : handlers'[i] = handlers[i - 1]
  BY <1>2, <1>3
<1>5. /\ events' \in Seq(Threads) /\ Len(events') = Len(events) - 1
      /\ \A i \in 1..Len(events) - 1 : events'[i] = events[i + 1]
  BY <1>1
<1> QED
  BY <1>2, <1>4, <1>5

(* A handler returns.                                                       *)
LEMMA ReturnFacts ==
  ASSUME handlers \in Seq(Threads \X Places), handlers # <<>>,
         handlers' = Tail(handlers)
  PROVE  /\ handlers' \in Seq(Threads \X Places)
         /\ Len(handlers') = Len(handlers) - 1
         /\ \A i \in 1..Len(handlers') : handlers'[i] = handlers[i + 1]
  OBVIOUS

(* Where the innermost handler is.                                          *)
LEMMA AtFacts ==
  ASSUME handlers \in Seq(Threads \X Places)
  PROVE  /\ \A where : At(where) <=> Len(handlers) >= 1 /\ handlers[1][2] = where
         /\ handlers = <<>> <=> Len(handlers) = 0
         /\ Len(handlers) \in Nat
         /\ \A i \in 1..Len(handlers) : handlers[i] \in Threads \X Places
         /\ \A i \in 1..Len(handlers) : handlers[i][1] \in Threads
         /\ \A i \in 1..Len(handlers) : handlers[i][2] \in Places
<1>1. Len(handlers) \in Nat /\ (handlers = <<>> <=> Len(handlers) = 0)
  OBVIOUS
<1>2. handlers # <<>> => Head(handlers) = handlers[1]
  OBVIOUS
<1>3. \A i \in 1..Len(handlers) : handlers[i] \in Threads \X Places
  OBVIOUS
<1>4. \A i \in 1..Len(handlers) : handlers[i][1] \in Threads /\ handlers[i][2] \in Places
  BY <1>3
<1> QED
  BY <1>1, <1>2, <1>3, <1>4 DEF At

(* The same of the next state.                                              *)
LEMMA AtNext ==
  ASSUME handlers' \in Seq(Threads \X Places)
  PROVE  /\ \A where : At(where)' <=> Len(handlers') >= 1 /\ handlers'[1][2] = where
         /\ handlers' = <<>> <=> Len(handlers') = 0
         /\ Len(handlers') \in Nat
<1>1. Len(handlers') \in Nat /\ (handlers' = <<>> <=> Len(handlers') = 0)
  OBVIOUS
<1>2. handlers' # <<>> => Head(handlers') = handlers'[1]
  OBVIOUS
<1> QED
  BY <1>1, <1>2 DEF At

(* Answers and parameters are added at the end.                             *)
LEMMA AppendFacts ==
  ASSUME NEW S, NEW s \in Seq(S), NEW x \in S
  PROVE  /\ Append(s, x) \in Seq(S) /\ Len(Append(s, x)) = Len(s) + 1
         /\ \A i \in 1..Len(s) : Append(s, x)[i] = s[i]
         /\ Append(s, x)[Len(s) + 1] = x
         /\ Len(s) \in Nat
  OBVIOUS

(***************************************************************************)
(* Every step keeps the invariant of the hand-over.                        *)
(***************************************************************************)
LEMMA NeedKeeps ==
  ASSUME HandoffInv, NEW t \in Threads, Need(t)
  PROVE  HandoffInv'
<1> USE DEF HandoffInv
<1>1. /\ pc[t] = "run" /\ pc' = [pc EXCEPT ![t] = "wait"]
      /\ events' = Append(events, t)
      /\ UNCHANGED <<got, handlers, depth, parameter, modified, forThread, answered, nested>>
  BY DEF Need, history
<1>2. HandoffTypes'
  BY <1>1 DEF HandoffTypes
<1>3. /\ Len(events') = Len(events) + 1 /\ Len(events) \in Nat
      /\ \A i \in 1..Len(events) : events'[i] = events[i]
      /\ events'[Len(events) + 1] = t
  BY <1>1, AppendFacts DEF HandoffTypes
<1>4. /\ \A i \in 1..Len(events) : events[i] \in Threads
      /\ \A i \in 1..Len(handlers) : handlers[i][1] \in Threads
      /\ pc \in [Threads -> {"run", "wait", "done"}]
  BY SMTT(60), AtFacts DEF HandoffTypes
<1>5. \A i \in 1..Len(events) : events[i] # t
  BY <1>1 DEF InOnePlace
<1>6. \A i \in 1..Len(handlers) : handlers[i][1] # t
  BY <1>1 DEF InOnePlace
<1>7. InnermostOnly' /\ Entered'
  BY <1>1 DEF InnermostOnly, Entered, At
<1>8. InOnePlace'
  <2>1. \A i \in 1..Len(events') : pc'[events'[i]] = "wait"
    BY <1>1, <1>3, <1>4 DEF InOnePlace
  <2>2. \A i \in 1..Len(handlers') : pc'[handlers'[i][1]] = "wait"
    BY <1>1, <1>4 DEF InOnePlace
  <2>3. \A i, j \in 1..Len(events') : events'[i] = events'[j] => i = j
    BY <1>1, <1>3, <1>5 DEF InOnePlace
  <2>4. \A i \in 1..Len(events'), j \in 1..Len(handlers') : events'[i] # handlers'[j][1]
    BY <1>1, <1>3, <1>6 DEF InOnePlace
  <2> QED
    BY <2>1, <2>2, <2>3, <2>4, <1>1 DEF InOnePlace
<1>9. AnswerFor'
  BY <1>1, <1>3, <1>4 DEF AnswerFor
<1>10. Accounted' /\ InTurn'
  BY <1>1 DEF Accounted, InTurn, Pending, At, Innermost
<1> QED
  BY <1>2, <1>7, <1>8, <1>9, <1>10

LEMMA TakeKeeps ==
  ASSUME HandoffInv, NEW t \in Threads, Take(t)
  PROVE  HandoffInv'
<1> USE DEF HandoffInv
<1>1. /\ pc[t] = "wait" /\ depth = 0 /\ modified /\ forThread = t
      /\ got' = [got EXCEPT ![t] = Append(@, parameter)]
      /\ pc' = [pc EXCEPT ![t] = "run"]
      /\ parameter' = Blank /\ modified' = FALSE /\ forThread' = NoThread
      /\ UNCHANGED <<events, handlers, depth, answered, nested>>
  BY DEF Take, history
<1>2. HandoffTypes'
  <2>1. Append(got[t], parameter) \in Seq(Typed)
    BY DEF HandoffTypes
  <2>2. got' \in [Threads -> Seq(Typed)]
    BY <1>1, <2>1 DEF HandoffTypes
  <2> QED
    BY <1>1, <2>2 DEF HandoffTypes, Typed
<1>3. /\ \A i \in 1..Len(events) : events[i] \in Threads /\ events[i] # t
      /\ \A i \in 1..Len(handlers) : handlers[i][1] \in Threads /\ handlers[i][1] # t
      /\ pc \in [Threads -> {"run", "wait", "done"}]
  BY SMTT(60), <1>1, AtFacts DEF HandoffTypes, AnswerFor
<1>4. InnermostOnly' /\ Entered' /\ AnswerFor'
  BY <1>1 DEF InnermostOnly, Entered, At, AnswerFor
<1>5. InOnePlace'
  BY <1>1, <1>3 DEF InOnePlace
<1>6. ~At("closed") /\ Len(handlers) \in Nat
  BY <1>1, AtFacts DEF Entered, HandoffTypes
<1>7. /\ \A u \in Threads : Pending(u) <=> u = t
      /\ \A u \in Threads : ~Pending(u)'
  BY <1>1, <1>6 DEF Pending, At
<1>8. /\ Len(got'[t]) = Len(got[t]) + 1
      /\ \A i \in 1..Len(got[t]) : got'[t][i] = got[t][i]
      /\ got'[t][Len(got[t]) + 1] = parameter
      /\ \A u \in Threads : u # t => got'[u] = got[u]
      /\ \A u \in Threads : Len(got[u]) \in Nat /\ Len(answered[u]) \in Nat
  <2>1. got[t] \in Seq(Typed) /\ parameter \in Typed
        /\ got'[t] = Append(got[t], parameter)
    BY <1>1 DEF HandoffTypes
  <2>2. \A u \in Threads : u # t => got'[u] = got[u]
    BY <1>1 DEF HandoffTypes
  <2>3. \A u \in Threads : got[u] \in Seq(Typed) /\ answered[u] \in Seq(Typed)
    BY DEF HandoffTypes
  <2> QED
    BY <2>1, <2>2, <2>3, AppendFacts
<1>9. Accounted'
  <2> SUFFICES ASSUME NEW u \in Threads
               PROVE  Len(got'[u]) <= Len(answered[u])
    BY <1>1, <1>7 DEF Accounted
  <2>1. /\ Len(got[u]) <= Len(answered[u])
        /\ u = t => Len(got[u]) < Len(answered[u])
    BY <1>7 DEF Accounted
  <2>2. CASE u = t
    BY <2>1, <2>2, <1>8
  <2>3. CASE u # t
    BY <2>1, <2>3, <1>8
  <2> QED
    BY <2>2, <2>3
<1>10. InTurn'
  <2> SUFFICES ASSUME ~nested PROVE InTurn'
    BY <1>1 DEF InTurn
  <2>1. /\ Len(handlers') <= 1
        /\ At("dialog")' \/ At("closed")' => ~modified'
        /\ ~modified' /\ ~At("closed")' => parameter' = Blank
    BY <1>1 DEF InTurn
  <2>2. \A u \in Threads :
         /\ u = t => Len(answered[u]) = Len(got[u]) + 1
         /\ u # t => Len(answered[u]) = Len(got[u])
         /\ \A i \in 1..Len(got[u]) : got[u][i] = answered[u][i]
    BY <1>7 DEF InTurn
  <2>3. parameter = answered[t][Len(answered[t])]
    BY <1>7 DEF InTurn
  <2>4. \A u \in Threads :
         /\ Len(answered[u]) = Len(got'[u])
         /\ \A i \in 1..Len(got'[u]) : got'[u][i] = answered[u][i]
    <3> SUFFICES ASSUME NEW u \in Threads
                 PROVE  /\ Len(answered[u]) = Len(got'[u])
                        /\ \A i \in 1..Len(got'[u]) : got'[u][i] = answered[u][i]
      OBVIOUS
    <3>1. CASE u # t
      BY <3>1, <1>8, <2>2
    <3>2. CASE u = t
      <4>1. /\ Len(answered[t]) = Len(got[t]) + 1
            /\ \A i \in 1..Len(got[t]) : got[t][i] = answered[t][i]
        BY <2>2
      <4>2. Len(got[t]) \in Nat
        BY <1>8
      <4>3. ASSUME NEW i \in 1..Len(got[t]) + 1
            PROVE  got'[t][i] = answered[t][i]
        <5>1. CASE i \in 1..Len(got[t])
          BY <5>1, <4>1, <1>8
        <5>2. CASE i = Len(got[t]) + 1
          BY <5>2, <4>1, <1>8, <2>3
        <5> QED
          BY <5>1, <5>2, <4>2
      <4> QED
        BY <3>2, <4>1, <4>3, <1>8
    <3> QED
      BY <3>1, <3>2
  <2>5. answered' = answered /\ \A u \in Threads : ~Pending(u)'
    BY <1>1, <1>7
  <2>6. \A u \in Threads :
         /\ Pending(u)' => Len(answered'[u]) = Len(got'[u]) + 1
         /\ ~Pending(u)' => Len(answered'[u]) = Len(got'[u])
         /\ \A i \in 1..Len(got'[u]) : got'[u][i] = answered'[u][i]
         /\ Pending(u)' => parameter' = answered'[u][Len(answered'[u])]
    <3>1. \A u \in Threads : Len(answered[u]) \in Nat
      BY <1>8
    <3> QED
      BY <2>4, <2>5, <3>1
  <2> QED
    BY <2>1, <2>6 DEF InTurn
<1> QED
  BY <1>2, <1>4, <1>5, <1>9, <1>10

(* A thread ends, with success or with an exception.                        *)
LEMMA EndKeeps ==
  ASSUME HandoffInv, NEW t \in Threads, Finish(t) \/ Gone(t)
  PROVE  HandoffInv'
<1> USE DEF HandoffInv
<1>1. /\ pc[t] = "run" /\ pc' = [pc EXCEPT ![t] = "done"]
      /\ UNCHANGED <<got, events, handlers, depth, parameter, modified, forThread,
                     answered, nested>>
  BY DEF Finish, Gone, history
<1>2. HandoffTypes'
  BY <1>1 DEF HandoffTypes
<1>3. \A u \in Threads : pc[u] = "wait" => pc'[u] = "wait"
  BY <1>1 DEF HandoffTypes
<1>4. /\ \A i \in 1..Len(events) : events[i] \in Threads
      /\ \A i \in 1..Len(handlers) : handlers[i][1] \in Threads
  BY AtFacts DEF HandoffTypes
<1>5. InnermostOnly' /\ Entered'
  BY <1>1 DEF InnermostOnly, Entered, At
<1>6. InOnePlace'
  BY <1>1, <1>3, <1>4 DEF InOnePlace
<1>7. AnswerFor'
  BY <1>1, <1>3 DEF AnswerFor
<1>8. Accounted' /\ InTurn'
  BY <1>1 DEF Accounted, InTurn, Pending, At, Innermost
<1> QED
  BY <1>2, <1>5, <1>6, <1>7, <1>8

LEMMA DispatchKeeps ==
  ASSUME HandoffInv, Dispatch
  PROVE  HandoffInv'
<1> USE DEF HandoffInv
<1>1. /\ events # <<>> /\ (handlers = <<>> \/ At("dialog"))
      /\ nested' = (nested \/ handlers # <<>>)
      /\ UNCHANGED <<pc, got, depth, parameter, modified, forThread, answered>>
  BY DEF Dispatch
<1>2. /\ handlers' \in Seq(Threads \X Places)
      /\ Len(handlers') = Len(handlers) + 1
      /\ handlers'[1] = <<events[1], "enter">>
      /\ \A i \in 2..Len(handlers') : handlers'[i] = handlers[i - 1]
      /\ events' \in Seq(Threads) /\ Len(events') = Len(events) - 1
      /\ \A i \in 1..Len(events') : events'[i] = events[i + 1]
  BY DispatchFacts DEF Dispatch, HandoffTypes
<1>3. /\ \A where : At(where) <=> Len(handlers) >= 1 /\ handlers[1][2] = where
      /\ handlers = <<>> <=> Len(handlers) = 0
      /\ Len(handlers) \in Nat
  BY AtFacts DEF HandoffTypes
<1>4. Len(events) \in Nat \ {0}
  BY <1>1 DEF HandoffTypes
<1>5. /\ \A where : At(where)' <=> Len(handlers') >= 1 /\ handlers'[1][2] = where
      /\ handlers' = <<>> <=> Len(handlers') = 0
  BY <1>2, AtNext
<1>6. At("enter")' /\ ~At("closed")' /\ ~At("dialog")'
  BY <1>2, <1>3, <1>5
<1>7. HandoffTypes'
  BY <1>1, <1>2 DEF HandoffTypes
<1>8. InnermostOnly'
  <2> SUFFICES ASSUME NEW i \in 2..Len(handlers') PROVE handlers'[i][2] = "dialog"
    BY DEF InnermostOnly
  <2>1. handlers'[i] = handlers[i - 1] /\ i - 1 \in 1..Len(handlers)
    BY <1>2, <1>3
  <2>2. CASE i = 2
    BY <2>1, <2>2, <1>1, <1>3
  <2>3. CASE i > 2
    BY <2>1, <2>3 DEF InnermostOnly
  <2> QED
    BY <2>2, <2>3
<1>9. Entered'
  <2>1. depth = Len(handlers)
    BY <1>1, <1>3 DEF Entered
  <2> QED
    BY <2>1, <1>1, <1>2, <1>3, <1>5, <1>6 DEF Entered
<1>10. /\ \A i \in 1..Len(events') : i + 1 \in 1..Len(events) /\ events'[i] = events[i + 1]
       /\ 1 \in 1..Len(events)
       /\ \A i \in 2..Len(handlers') : i - 1 \in 1..Len(handlers)
                                       /\ handlers'[i] = handlers[i - 1]
       /\ handlers'[1][1] = events[1]
       /\ 1..Len(handlers') = {1} \cup (2..Len(handlers'))
  BY <1>2, <1>3, <1>4
<1>11. InOnePlace'
  <2>1. \A i \in 1..Len(events') : pc'[events'[i]] = "wait"
    BY <1>1, <1>10 DEF InOnePlace
  <2>2. ASSUME NEW i \in 1..Len(handlers') PROVE pc'[handlers'[i][1]] = "wait"
    <3>1. CASE i = 1
      BY <3>1, <1>1, <1>10 DEF InOnePlace
    <3>2. CASE i \in 2..Len(handlers')
      <4>1. handlers'[i] = handlers[i - 1] /\ i - 1 \in 1..Len(handlers)
        BY <3>2, <1>10
      <4> QED
        BY <4>1, <1>1 DEF InOnePlace
    <3> QED
      BY <3>1, <3>2, <1>10
  <2>3. \A i, j \in 1..Len(events') : events'[i] = events'[j] => i = j
    <3> SUFFICES ASSUME NEW i \in 1..Len(events'), NEW j \in 1..Len(events'),
                        events'[i] = events'[j]
                 PROVE  i = j
      OBVIOUS
    <3>1. i + 1 = j + 1
      BY <1>10 DEF InOnePlace
    <3> QED
      BY <3>1
  <2>4. \A i \in 1..Len(events'), j \in 1..Len(handlers') : events'[i] # handlers'[j][1]
    <3> SUFFICES ASSUME NEW i \in 1..Len(events'), NEW j \in 1..Len(handlers')
                 PROVE  events'[i] # handlers'[j][1]
      OBVIOUS
    <3>1. CASE j = 1
      <4>1. i + 1 # 1
        OBVIOUS
      <4> QED
        BY <3>1, <4>1, <1>10 DEF InOnePlace
    <3>2. CASE j \in 2..Len(handlers')
      <4>1. handlers'[j] = handlers[j - 1] /\ j - 1 \in 1..Len(handlers)
        BY <3>2, <1>10
      <4>2. events'[i] = events[i + 1] /\ i + 1 \in 1..Len(events)
        BY <1>10
      <4>3. events[i + 1] # handlers[j - 1][1]
        BY <4>1, <4>2 DEF InOnePlace
      <4> QED
        BY <4>1, <4>2, <4>3
    <3> QED
      BY <3>1, <3>2, <1>10
  <2>5. \A i, j \in 1..Len(handlers') : handlers'[i][1] = handlers'[j][1] => i = j
    <3> SUFFICES ASSUME NEW i \in 1..Len(handlers'), NEW j \in 1..Len(handlers'),
                        handlers'[i][1] = handlers'[j][1]
                 PROVE  i = j
      OBVIOUS
    <3>1. CASE i = 1 /\ j = 1
      BY <3>1
    <3>2. CASE i = 1 /\ j \in 2..Len(handlers')
      BY <3>2, <1>10 DEF InOnePlace
    <3>3. CASE i \in 2..Len(handlers') /\ j = 1
      BY <3>3, <1>10 DEF InOnePlace
    <3>4. CASE i \in 2..Len(handlers') /\ j \in 2..Len(handlers')
      <4>1. handlers[i - 1][1] = handlers[j - 1][1]
            /\ i - 1 \in 1..Len(handlers) /\ j - 1 \in 1..Len(handlers)
        BY <3>4, <1>10
      <4>2. i - 1 = j - 1
        BY <4>1 DEF InOnePlace
      <4> QED
        BY <4>2
    <3> QED
      BY <3>1, <3>2, <3>3, <3>4, <1>10
  <2> QED
    BY <2>1, <2>2, <2>3, <2>4, <2>5 DEF InOnePlace
<1>12. AnswerFor'
  <2> SUFFICES ASSUME modified
               PROVE  /\ forThread \in Threads /\ pc[forThread] = "wait"
                      /\ \A i \in 1..Len(events') : events'[i] # forThread
                      /\ \A i \in 1..Len(handlers') : handlers'[i][1] # forThread
    BY <1>1 DEF AnswerFor
  <2>1. /\ forThread \in Threads /\ pc[forThread] = "wait"
        /\ \A i \in 1..Len(events) : events[i] # forThread
        /\ \A i \in 1..Len(handlers) : handlers[i][1] # forThread
    BY DEF AnswerFor
  <2>2. \A i \in 1..Len(handlers') : handlers'[i][1] # forThread
    BY <2>1, <1>10
  <2> QED
    BY <2>1, <2>2, <1>10
<1>13. ~At("closed")
  BY <1>1, <1>3
<1>14. \A t \in Threads : Pending(t)' <=> Pending(t)
  BY <1>1, <1>6, <1>13 DEF Pending
<1>15. Accounted'
  BY <1>1, <1>14 DEF Accounted
<1>16. InTurn'
  <2> SUFFICES ASSUME ~nested' PROVE InTurn'
    BY DEF InTurn
  <2>1. ~nested /\ Len(handlers) = 0
    BY <1>1, <1>3
  <2> QED
    BY <2>1, <1>1, <1>2, <1>6, <1>13, <1>14 DEF InTurn
<1> QED
  BY <1>7, <1>8, <1>9, <1>11, <1>12, <1>15, <1>16

LEMMA EnterKeeps ==
  ASSUME HandoffInv, EnterSection
  PROVE  HandoffInv'
<1> USE DEF HandoffInv
<1>1. /\ At("enter") /\ ~modified /\ depth' = depth + 1
      /\ UNCHANGED <<pc, got, events, parameter, modified, forThread, answered, nested>>
  BY DEF EnterSection, history
<1>2. /\ \A where : At(where) <=> Len(handlers) >= 1 /\ handlers[1][2] = where
      /\ handlers = <<>> <=> Len(handlers) = 0
      /\ Len(handlers) \in Nat
  BY AtFacts DEF HandoffTypes
<1>3. /\ handlers' \in Seq(Threads \X Places)
      /\ Len(handlers') = Len(handlers)
      /\ handlers'[1] = <<Innermost, "dialog">>
      /\ \A i \in 2..Len(handlers) : handlers'[i] = handlers[i]
      /\ \A i \in 1..Len(handlers) : handlers'[i][1] = handlers[i][1]
  BY <1>1, BecomesFacts DEF EnterSection, HandoffTypes, Places, At
<1>4. /\ \A where : At(where)' <=> Len(handlers') >= 1 /\ handlers'[1][2] = where
      /\ handlers' = <<>> <=> Len(handlers') = 0
  BY <1>3, AtNext
<1>5. At("dialog")' /\ ~At("closed")' /\ ~At("enter")' /\ ~At("closed")
  BY <1>1, <1>2, <1>3, <1>4
<1>6. HandoffTypes'
  BY <1>1, <1>3 DEF HandoffTypes
<1>7. InnermostOnly' /\ InOnePlace' /\ AnswerFor'
  BY <1>1, <1>3 DEF InnermostOnly, InOnePlace, AnswerFor
<1>8. Entered'
  BY <1>1, <1>2, <1>3, <1>4, <1>5 DEF Entered
<1>9. \A t \in Threads : Pending(t)' <=> Pending(t)
  BY <1>1, <1>5 DEF Pending
<1>10. Accounted'
  BY <1>1, <1>9 DEF Accounted
<1>11. InTurn'
  BY <1>1, <1>3, <1>5, <1>9 DEF InTurn
<1> QED
  BY <1>6, <1>7, <1>8, <1>10, <1>11

LEMMA CloseKeeps ==
  ASSUME HandoffInv, NEW p \in Typed, CloseDialog(p)
  PROVE  HandoffInv'
<1> USE DEF HandoffInv
<1>1. /\ At("dialog") /\ parameter' = IF p = Blank THEN parameter ELSE p
      /\ answered' = [answered EXCEPT ![Innermost] = Append(@, p)]
      /\ UNCHANGED <<pc, got, events, depth, modified, forThread, nested>>
  <2>1. At("dialog") /\ Head(handlers) = handlers[1]
    BY DEF CloseDialog, At, HandoffTypes
  <2> QED
    BY <2>1 DEF CloseDialog, Innermost
<1>2. /\ \A where : At(where) <=> Len(handlers) >= 1 /\ handlers[1][2] = where
      /\ handlers = <<>> <=> Len(handlers) = 0
      /\ Len(handlers) \in Nat
      /\ \A i \in 1..Len(handlers) : handlers[i][1] \in Threads
  BY AtFacts DEF HandoffTypes
<1>3. /\ handlers' \in Seq(Threads \X Places)
      /\ Len(handlers') = Len(handlers)
      /\ handlers'[1] = <<Innermost, "closed">>
      /\ \A i \in 2..Len(handlers) : handlers'[i] = handlers[i]
      /\ \A i \in 1..Len(handlers) : handlers'[i][1] = handlers[i][1]
  BY <1>1, BecomesFacts DEF CloseDialog, HandoffTypes, Places, At
<1>4. /\ \A where : At(where)' <=> Len(handlers') >= 1 /\ handlers'[1][2] = where
      /\ handlers' = <<>> <=> Len(handlers') = 0
  BY <1>3, AtNext
<1>5. At("closed")' /\ ~At("dialog")' /\ ~At("enter")' /\ ~At("closed") /\ ~At("enter")
  BY <1>1, <1>2, <1>3, <1>4
<1>6. Innermost \in Threads /\ Innermost' = Innermost
  BY <1>1, <1>2, <1>3 DEF Innermost
<1>7. /\ Len(answered'[Innermost]) = Len(answered[Innermost]) + 1
      /\ \A i \in 1..Len(answered[Innermost]) :
           answered'[Innermost][i] = answered[Innermost][i]
      /\ answered'[Innermost][Len(answered[Innermost]) + 1] = p
      /\ \A u \in Threads : u # Innermost => answered'[u] = answered[u]
      /\ \A u \in Threads : Len(got[u]) \in Nat /\ Len(answered[u]) \in Nat
      /\ answered' \in [Threads -> Seq(Typed)]
  <2>1. answered[Innermost] \in Seq(Typed)
        /\ answered'[Innermost] = Append(answered[Innermost], p)
    BY <1>1, <1>6 DEF HandoffTypes
  <2>2. \A u \in Threads : u # Innermost => answered'[u] = answered[u]
    BY <1>1, <1>6 DEF HandoffTypes
  <2>3. \A u \in Threads : got[u] \in Seq(Typed) /\ answered[u] \in Seq(Typed)
    BY DEF HandoffTypes
  <2>4. Append(answered[Innermost], p) \in Seq(Typed)
    BY <2>1, AppendFacts
  <2>5. answered' \in [Threads -> Seq(Typed)]
    BY <1>1, <2>4 DEF HandoffTypes
  <2> QED
    BY <2>1, <2>2, <2>3, <2>5, AppendFacts
<1>8. HandoffTypes'
  BY <1>1, <1>3, <1>7 DEF HandoffTypes
<1>9. InnermostOnly' /\ InOnePlace' /\ AnswerFor'
  <2>1. UNCHANGED <<pc, events, modified, forThread>>
    BY <1>1
  <2>2. InnermostOnly'
    BY <2>1, <1>3 DEF InnermostOnly
  <2>3. InOnePlace'
    BY <2>1, <1>3 DEF InOnePlace
  <2>4. AnswerFor'
    BY <2>1, <1>3 DEF AnswerFor
  <2> QED
    BY <2>2, <2>3, <2>4
<1>10. Entered'
  BY <1>1, <1>2, <1>3, <1>4, <1>5 DEF Entered
<1>11. \A t \in Threads : /\ Pending(t) <=> modified /\ forThread = t
                          /\ Pending(t)' <=> (modified /\ forThread = t) \/ t = Innermost
  BY <1>1, <1>5, <1>6 DEF Pending
<1>12. Accounted'
  <2> SUFFICES ASSUME NEW u \in Threads
               PROVE  /\ Len(got[u]) <= Len(answered'[u])
                      /\ Pending(u)' => Len(got[u]) < Len(answered'[u])
    BY <1>1 DEF Accounted
  <2>1. /\ Len(got[u]) <= Len(answered[u])
        /\ Pending(u) => Len(got[u]) < Len(answered[u])
    BY DEF Accounted
  <2>2. CASE u = Innermost
    BY <2>1, <2>2, <1>7
  <2>3. CASE u # Innermost
    BY <2>1, <2>3, <1>7, <1>11
  <2> QED
    BY <2>2, <2>3
<1>13. InTurn'
  <2> SUFFICES ASSUME ~nested PROVE InTurn'
    BY <1>1 DEF InTurn
  <2>1. /\ Len(handlers) <= 1 /\ ~modified
        /\ \A t \in Threads :
             /\ ~Pending(t) => Len(answered[t]) = Len(got[t])
             /\ \A i \in 1..Len(got[t]) : got[t][i] = answered[t][i]
        /\ parameter = Blank
    BY <1>1, <1>5 DEF InTurn
  <2>2. parameter' = p
    BY <2>1, <1>1
  <2>3. \A t \in Threads :
          /\ Len(answered[t]) = Len(got[t])
          /\ Pending(t)' <=> t = Innermost
    BY <2>1, <1>11
  <2>4. ASSUME NEW t \in Threads
        PROVE  /\ Pending(t)' => Len(answered'[t]) = Len(got'[t]) + 1
               /\ ~Pending(t)' => Len(answered'[t]) = Len(got'[t])
               /\ \A i \in 1..Len(got'[t]) : got'[t][i] = answered'[t][i]
               /\ Pending(t)' => parameter' = answered'[t][Len(answered'[t])]
    <3>1. CASE t = Innermost
      BY <3>1, <2>1, <2>2, <2>3, <1>1, <1>7
    <3>2. CASE t # Innermost
      BY <3>2, <2>1, <2>3, <1>1, <1>7
    <3> QED
      BY <3>1, <3>2
  <2> QED
    BY <2>1, <2>4, <1>1, <1>3, <1>5 DEF InTurn
<1> QED
  BY <1>8, <1>9, <1>10, <1>12, <1>13

LEMMA ReturnKeeps ==
  ASSUME HandoffInv, Return
  PROVE  HandoffInv'
<1> USE DEF HandoffInv
<1>1. /\ At("closed") /\ modified' = TRUE /\ forThread' = Innermost
      /\ depth' = depth - 1
      /\ UNCHANGED <<pc, got, events, parameter, answered, nested>>
  BY DEF Return, history, At, Innermost
<1>2. /\ \A where : At(where) <=> Len(handlers) >= 1 /\ handlers[1][2] = where
      /\ handlers = <<>> <=> Len(handlers) = 0
      /\ Len(handlers) \in Nat
      /\ \A i \in 1..Len(handlers) : handlers[i][1] \in Threads
  BY AtFacts DEF HandoffTypes
<1>3. /\ handlers' \in Seq(Threads \X Places)
      /\ Len(handlers') = Len(handlers) - 1
      /\ \A i \in 1..Len(handlers') : handlers'[i] = handlers[i + 1]
  BY <1>1, ReturnFacts DEF Return, HandoffTypes, At
<1>4. /\ \A where : At(where)' <=> Len(handlers') >= 1 /\ handlers'[1][2] = where
      /\ handlers' = <<>> <=> Len(handlers') = 0
  BY <1>3, AtNext
<1>5. \A i \in 1..Len(handlers') : /\ i + 1 \in 2..Len(handlers)
                                   /\ i + 1 \in 1..Len(handlers)
                                   /\ handlers'[i] = handlers[i + 1]
  BY <1>2, <1>3
<1>6. 1 \in 1..Len(handlers) /\ Innermost \in Threads /\ pc[Innermost] = "wait"
  BY <1>1, <1>2 DEF Innermost, InOnePlace
<1>7. InnermostOnly'
  <2> SUFFICES ASSUME NEW i \in 2..Len(handlers') PROVE handlers'[i][2] = "dialog"
    BY DEF InnermostOnly
  <2>1. i \in 1..Len(handlers')
    BY <1>2, <1>3
  <2> QED
    BY <2>1, <1>5 DEF InnermostOnly
<1>8. ~At("closed")' /\ ~At("enter")'
  <2>1. Len(handlers') >= 1 => handlers'[1][2] = "dialog"
    BY <1>2, <1>3, <1>5 DEF InnermostOnly
  <2> QED
    BY <2>1, <1>4
<1>9. HandoffTypes'
  BY <1>1, <1>3, <1>6 DEF HandoffTypes
<1>10. Entered'
  <2>1. depth = Len(handlers)
    BY <1>1, <1>2 DEF Entered
  <2>2. depth' = Len(handlers')
    BY <2>1, <1>1, <1>2, <1>3
  <2> QED
    BY <2>2, <1>4, <1>8 DEF Entered
<1>11. InOnePlace'
  <2>1. \A i \in 1..Len(handlers') : pc'[handlers'[i][1]] = "wait"
    BY SMTT(60), <1>1, <1>5 DEF InOnePlace
  <2>2. \A i, j \in 1..Len(handlers') : handlers'[i][1] = handlers'[j][1] => i = j
    <3> SUFFICES ASSUME NEW i \in 1..Len(handlers'), NEW j \in 1..Len(handlers'),
                        handlers'[i][1] = handlers'[j][1]
                 PROVE  i = j
      OBVIOUS
    <3>1. handlers[i + 1][1] = handlers[j + 1][1]
          /\ i + 1 \in 1..Len(handlers) /\ j + 1 \in 1..Len(handlers)
      BY <1>5
    <3>2. i + 1 = j + 1
      BY <3>1 DEF InOnePlace
    <3> QED
      BY <3>2
  <2>3. \A i \in 1..Len(events'), j \in 1..Len(handlers') : events'[i] # handlers'[j][1]
    BY <1>1, <1>5 DEF InOnePlace
  <2> QED
    BY <2>1, <2>2, <2>3, <1>1 DEF InOnePlace
<1>12. AnswerFor'
  <2>1. \A i \in 1..Len(events) : events[i] # Innermost
    BY <1>6 DEF InOnePlace, Innermost
  <2>2. ASSUME NEW i \in 1..Len(handlers') PROVE handlers'[i][1] # Innermost
    <3>1. i + 1 # 1 /\ i + 1 \in 1..Len(handlers) /\ handlers'[i] = handlers[i + 1]
      BY <1>5
    <3> QED
      BY <3>1, <1>6 DEF InOnePlace, Innermost
  <2> QED
    BY <2>1, <2>2, <1>1, <1>6 DEF AnswerFor
<1>13. \A t \in Threads : /\ Pending(t)' <=> t = Innermost
                          /\ t = Innermost => Pending(t)
  BY <1>1, <1>8 DEF Pending
<1>14. Accounted'
  BY <1>1, <1>13 DEF Accounted
<1>15. InTurn'
  <2> SUFFICES ASSUME ~nested PROVE InTurn'
    BY <1>1 DEF InTurn
  <2>1. Len(handlers) = 1 /\ ~modified
    <3>1. Len(handlers) <= 1 /\ Len(handlers) >= 1 /\ Len(handlers) \in Nat
      BY <1>1, <1>2 DEF InTurn
    <3>2. ~modified
      BY <1>1 DEF InTurn
    <3> DEFINE n == Len(handlers)
    <3>3. n <= 1 /\ n >= 1 /\ n \in Nat
      BY <3>1
    <3> HIDE DEF n
    <3>4. n = 1
      BY <3>3
    <3> QED
      BY <3>2, <3>4 DEF n
  <2>2. \A t \in Threads : Pending(t) <=> t = Innermost
    BY <2>1, <1>1 DEF Pending
  <2>3. Len(handlers') = 0 /\ ~At("dialog")'
    BY <2>1, <1>3, <1>4
  <2>4. \A t \in Threads :
          /\ Pending(t)' => Len(answered'[t]) = Len(got'[t]) + 1
          /\ ~Pending(t)' => Len(answered'[t]) = Len(got'[t])
          /\ \A i \in 1..Len(got'[t]) : got'[t][i] = answered'[t][i]
          /\ Pending(t)' => parameter' = answered'[t][Len(answered'[t])]
    BY <2>2, <1>1, <1>13 DEF InTurn
  <2> QED
    BY <2>3, <2>4, <1>1, <1>8 DEF InTurn
<1> QED
  BY <1>7, <1>9, <1>10, <1>11, <1>12, <1>14, <1>15

(* Whatever a thread or the GUI does.                                       *)
LEMMA HandoffKeeps ==
  ASSUME HandoffInv,
         \/ GuiStep \/ UNCHANGED vars
         \/ \E t \in Threads : ThreadStep(t) \/ Gone(t)
  PROVE  HandoffInv'
<1>1. CASE GuiStep
  BY <1>1, DispatchKeeps, EnterKeeps, CloseKeeps, ReturnKeeps DEF GuiStep, Typed
<1>2. CASE UNCHANGED vars
  BY <1>2 DEF vars, history, HandoffInv, HandoffTypes, InnermostOnly, Entered, InOnePlace,
              AnswerFor, Accounted, InTurn, Pending, At, Innermost
<1>3. CASE \E t \in Threads : ThreadStep(t) \/ Gone(t)
  BY <1>3, NeedKeeps, TakeKeeps, EndKeeps DEF ThreadStep
<1> QED
  BY <1>1, <1>2, <1>3

LEMMA HandoffStarts == ASSUME Init PROVE HandoffInv
<1> USE DEF Init
<1>1. Len(handlers) = 0 /\ Len(events) = 0 /\ handlers = <<>>
      /\ \A t \in Threads : got[t] = <<>> /\ answered[t] = <<>>
  OBVIOUS
<1>2. HandoffTypes
  <2>1. <<>> \in Seq(Typed) /\ <<>> \in Seq(Threads) /\ <<>> \in Seq(Threads \X Places)
    OBVIOUS
  <2> QED
    BY <2>1 DEF HandoffTypes, Typed
<1>3. InnermostOnly /\ Entered /\ InOnePlace /\ AnswerFor
  BY <1>1 DEF InnermostOnly, Entered, InOnePlace, AnswerFor
<1>4. \A t \in Threads : ~Pending(t)
  BY <1>1 DEF Pending, At
<1>5. ~At("dialog") /\ ~At("closed")
  BY <1>1 DEF At
<1>6. Len(<<>>) = 0
  OBVIOUS
<1>7. Accounted /\ InTurn
  BY <1>1, <1>4, <1>5, <1>6 DEF Accounted, InTurn
<1> QED
  BY <1>2, <1>3, <1>7 DEF HandoffInv

(* The GUI counts its handlers in the critical section.                     *)
LEMMA DepthCounts ==
  ASSUME HandoffInv
  PROVE  depth = Cardinality({i \in DOMAIN handlers : handlers[i][2] # "enter"})
<1> DEFINE S == {i \in DOMAIN handlers : handlers[i][2] # "enter"}
           n == Len(handlers)
<1>1. /\ \A where : At(where) <=> Len(handlers) >= 1 /\ handlers[1][2] = where
      /\ handlers = <<>> <=> Len(handlers) = 0
      /\ Len(handlers) \in Nat
      /\ DOMAIN handlers = 1..Len(handlers)
  BY AtFacts DEF HandoffInv, HandoffTypes
<1>2. \A i \in 2..n : handlers[i][2] # "enter"
  BY DEF HandoffInv, InnermostOnly
<1>3. CASE At("enter")
  <2>1. S = 2..n /\ n >= 1
    BY <1>1, <1>2, <1>3
  <2>2. Cardinality(2..n) = IF 2 > n THEN 0 ELSE n - 2 + 1
    BY SMTT(60), <1>1, FS_Interval
  <2>3. depth = n - 1
    <3>1. handlers # <<>>
      BY <1>3 DEF At
    <3> QED
      BY <1>3, <3>1 DEF HandoffInv, Entered
  <2> HIDE DEF S, n
  <2>4. n \in Nat
    BY <1>1 DEF n
  <2>5. Cardinality(2..n) = n - 1
    BY <2>1, <2>2, <2>4
  <2> QED
    BY <2>1, <2>3, <2>5 DEF S
<1>4. CASE ~At("enter")
  <2>1. S = 1..n
    BY <1>1, <1>2, <1>4
  <2>2. Cardinality(1..n) = IF 1 > n THEN 0 ELSE n - 1 + 1
    BY SMTT(30), <1>1, FS_Interval
  <2>3. depth = n
    BY <1>1, <1>4 DEF HandoffInv, Entered
  <2> HIDE DEF S, n
  <2>4. n \in Nat
    BY <1>1 DEF n
  <2>5. Cardinality(1..n) = n
    BY <2>2, <2>4
  <2> QED
    BY <2>1, <2>3, <2>5 DEF S
<1> QED
  BY <1>3, <1>4

LEMMA HandoffPromises ==
  ASSUME HandoffInv
  PROVE  TypeOK /\ NoEarlyParameter /\ RightParameterInTurn
<1>1. TypeOK
  BY DepthCounts DEF TypeOK, HandoffInv, HandoffTypes, Typed
<1>2. NoEarlyParameter
  BY DEF HandoffInv, Accounted, NoEarlyParameter
<1>3. RightParameterInTurn
  <2> SUFFICES ASSUME ~nested, NEW t \in Threads, NEW i \in 1..Len(got[t])
               PROVE  i <= Len(answered[t]) /\ got[t][i] = answered[t][i]
    BY DEF RightParameterInTurn, RightParameter
  <2>1. Len(got[t]) <= Len(answered[t])
    BY DEF HandoffInv, Accounted
  <2>2. got[t][i] = answered[t][i]
    BY DEF HandoffInv, InTurn
  <2>3. Len(got[t]) \in Nat /\ Len(answered[t]) \in Nat
    BY DEF HandoffInv, HandoffTypes
  <2> QED
    BY <2>1, <2>2, <2>3
<1> QED
  BY <1>1, <1>2, <1>3

-----------------------------------------------------------------------------
(***************************************************************************)
(* What Among returns, by induction over its sequence.                     *)
(***************************************************************************)

(* The recursion of Among, as far as n, ...                                 *)
SelectsUpTo(f, s, set, n) ==
  f = [i \in 0..n |-> IF i = 0 THEN <<>>
                      ELSE IF s[i] \in set THEN Append(f[i - 1], s[i])
                      ELSE f[i - 1]]

LEMMA SelectsAt ==
  ASSUME NEW f, NEW s, NEW set, NEW n, SelectsUpTo(f, s, set, n), NEW i \in 0..n
  PROVE  f[i] = IF i = 0 THEN <<>>
                ELSE IF s[i] \in set THEN Append(f[i - 1], s[i])
                ELSE f[i - 1]
<1> DEFINE g == [j \in 0..n |-> IF j = 0 THEN <<>>
                                ELSE IF s[j] \in set THEN Append(f[j - 1], s[j])
                                ELSE f[j - 1]]
<1>1. f = g
  BY DEF SelectsUpTo
<1>2. g[i] = IF i = 0 THEN <<>>
             ELSE IF s[i] \in set THEN Append(f[i - 1], s[i])
             ELSE f[i - 1]
  OBVIOUS
<1> HIDE DEF g
<1>3. f[i] = g[i]
  BY <1>1
<1> QED
  BY <1>2, <1>3

(* ... which some function follows, ...                                     *)
LEMMA SelectsExists ==
  ASSUME NEW s, NEW set
  PROVE  \A n \in Nat : \E f : SelectsUpTo(f, s, set, n)
<1> DEFINE S == {n \in Nat : \E f : SelectsUpTo(f, s, set, n)}
<1>1. 0 \in S
  <2> DEFINE f == [i \in 0..0 |-> <<>>]
  <2>1. SelectsUpTo(f, s, set, 0)
    BY DEF SelectsUpTo
  <2> QED
    BY <2>1
<1>2. ASSUME NEW n \in Nat, n \in S
      PROVE  n + 1 \in S
  <2>1. PICK f : SelectsUpTo(f, s, set, n)
    BY <1>2
  <2> DEFINE last == IF s[n + 1] \in set THEN Append(f[n], s[n + 1]) ELSE f[n]
             g == [i \in 0..(n + 1) |-> IF i <= n THEN f[i] ELSE last]
             h == [i \in 0..(n + 1) |-> IF i = 0 THEN <<>>
                                        ELSE IF s[i] \in set THEN Append(g[i - 1], s[i])
                                        ELSE g[i - 1]]
  <2>2. ASSUME NEW i \in 0..(n + 1)
        PROVE  g[i] = h[i]
    <3>1. CASE i = 0
      <4>1. g[i] = f[0] /\ h[i] = <<>>
        BY <3>1
      <4>2. f[0] = <<>>
        BY <2>1 DEF SelectsUpTo
      <4> QED
        BY <4>1, <4>2
    <3>2. CASE i \in 1..n
      <4>1. g[i] = f[i] /\ g[i - 1] = f[i - 1]
        BY <3>2
      <4>2. f[i] = IF s[i] \in set THEN Append(f[i - 1], s[i]) ELSE f[i - 1]
        <5>1. i \in 0..n /\ i # 0
          BY <3>2
        <5> QED
          BY <5>1, <2>1, SelectsAt
      <4>3. h[i] = IF s[i] \in set THEN Append(g[i - 1], s[i]) ELSE g[i - 1]
        BY <3>2
      <4> QED
        BY <4>1, <4>2, <4>3
    <3>3. CASE i = n + 1
      <4>1. g[i] = last /\ g[i - 1] = f[n]
        BY <3>3
      <4>2. h[i] = IF s[i] \in set THEN Append(g[i - 1], s[i]) ELSE g[i - 1]
        BY <3>3
      <4> QED
        BY <3>3, <4>1, <4>2
    <3> QED
      BY <3>1, <3>2, <3>3
  <2>3. g = h
    BY <2>2
  <2>4. SelectsUpTo(g, s, set, n + 1)
    BY <2>3 DEF SelectsUpTo
  <2> QED
    BY <2>4
<1>3. Nat \subseteq S
  BY <1>1, <1>2, NaturalInduction
<1> QED
  BY <1>3

(* ... so that it is what Among is.                                         *)
LEMMA AmongSelects ==
  ASSUME NEW s, NEW set, Len(s) \in Nat
  PROVE  \E f : SelectsUpTo(f, s, set, Len(s)) /\ Among(s, set) = f[Len(s)]
<1> DEFINE f == CHOOSE f : SelectsUpTo(f, s, set, Len(s))
<1>1. SelectsUpTo(f, s, set, Len(s))
  BY SelectsExists
<1>2. Among(s, set) = f[Len(s)]
  BY DEF Among, SelectsUpTo
<1> QED
  BY <1>1, <1>2

(* Among has the members of the sequence that are in the set, and each of   *)
(* them once when the sequence has each once.                               *)
LEMMA AmongFacts ==
  ASSUME NEW S, NEW s \in Seq(S), NEW set
  PROVE  /\ Among(s, set) \in Seq(S)
         /\ Range(Among(s, set)) = Range(s) \cap set
         /\ IsInjective(s) => IsInjective(Among(s, set))
<1>1. PICK f : SelectsUpTo(f, s, set, Len(s)) /\ Among(s, set) = f[Len(s)]
  BY AmongSelects
<1> DEFINE Good(n) ==
             /\ f[n] \in Seq(S)
             /\ \A x : (\E j \in 1..Len(f[n]) : f[n][j] = x)
                         <=> x \in set /\ \E i \in 1..n : s[i] = x
             /\ IsInjective(s) =>
                  \A j, k \in 1..Len(f[n]) : f[n][j] = f[n][k] => j = k
           G == {n \in Nat : n <= Len(s) => Good(n)}
<1>2. 0 \in G
  <2>1. f[0] = <<>>
    <3>1. 0 \in 0..Len(s)
      OBVIOUS
    <3> QED
      BY <1>1, <3>1, SelectsAt
  <2>2. f[0] \in Seq(S) /\ Len(f[0]) = 0
    BY <2>1
  <2>3. Good(0)
    BY <2>2
  <2> QED
    BY <2>3
<1>3. ASSUME NEW n \in Nat, n \in G
      PROVE  n + 1 \in G
  <2> SUFFICES ASSUME n + 1 <= Len(s) PROVE Good(n + 1)
    OBVIOUS
  <2>1. Good(n)
    BY <1>3
  <2>2. f[n + 1] = IF s[n + 1] \in set THEN Append(f[n], s[n + 1]) ELSE f[n]
    <3>1. n + 1 \in 0..Len(s) /\ n + 1 # 0 /\ n + 1 - 1 = n
      OBVIOUS
    <3>2. f[n + 1] = IF n + 1 = 0 THEN <<>>
                     ELSE IF s[n + 1] \in set THEN Append(f[n + 1 - 1], s[n + 1])
                     ELSE f[n + 1 - 1]
      BY <3>1, <1>1, SelectsAt
    <3> QED
      BY <3>1, <3>2
  <2>3. s[n + 1] \in S /\ n + 1 \in DOMAIN s /\ DOMAIN s = 1..Len(s)
    OBVIOUS
  <2>4. CASE s[n + 1] \notin set
    <3>1. f[n + 1] = f[n]
      BY <2>2, <2>4
    <3>2. ASSUME NEW x
          PROVE  (\E i \in 1..(n + 1) : s[i] = x) /\ x \in set
                   <=> (\E i \in 1..n : s[i] = x) /\ x \in set
      BY <2>4
    <3> QED
      BY <2>1, <3>1, <3>2
  <2>5. CASE s[n + 1] \in set
    <3> DEFINE x0 == s[n + 1]
    <3>1. /\ f[n + 1] \in Seq(S) /\ Len(f[n + 1]) = Len(f[n]) + 1
          /\ \A i \in 1..Len(f[n]) : f[n + 1][i] = f[n][i]
          /\ f[n + 1][Len(f[n]) + 1] = x0
          /\ Len(f[n]) \in Nat
      BY <2>1, <2>2, <2>3, <2>5, AppendFacts
    <3>2. ASSUME NEW x
          PROVE  (\E j \in 1..Len(f[n + 1]) : f[n + 1][j] = x)
                   <=> (\E j \in 1..Len(f[n]) : f[n][j] = x) \/ x = x0
      <4> DEFINE a == f[n]
                 b == f[n + 1]
                 m == Len(a)
      <4>1. /\ Len(b) = m + 1 /\ m \in Nat
            /\ \A i \in 1..m : b[i] = a[i]
            /\ b[m + 1] = x0
        BY <3>1
      <4> HIDE DEF a, b, m, x0
      <4>2. (\E j \in 1..(m + 1) : b[j] = x) <=> (\E j \in 1..m : b[j] = x) \/ b[m + 1] = x
        BY <4>1
      <4>3. (\E j \in 1..m : b[j] = x) <=> (\E j \in 1..m : a[j] = x)
        BY <4>1
      <4>4. (\E j \in 1..Len(b) : b[j] = x) <=> (\E j \in 1..m : a[j] = x) \/ x = x0
        BY <4>1, <4>2, <4>3
      <4> QED
        BY <4>4 DEF a, b, m
    <3>3. ASSUME NEW x
          PROVE  (\E i \in 1..(n + 1) : s[i] = x) <=> (\E i \in 1..n : s[i] = x) \/ x = x0
      OBVIOUS
    <3>4. ASSUME NEW x
          PROVE  (\E j \in 1..Len(f[n + 1]) : f[n + 1][j] = x)
                         <=> x \in set /\ \E i \in 1..(n + 1) : s[i] = x
      BY <2>1, <2>5, <3>2, <3>3
    <3>5. ASSUME IsInjective(s), NEW j \in 1..Len(f[n + 1]), NEW k \in 1..Len(f[n + 1]),
                 f[n + 1][j] = f[n + 1][k]
          PROVE  j = k
      <4>1. ~\E i \in 1..Len(f[n]) : f[n][i] = x0
        <5>1. ~\E i \in 1..n : s[i] = x0
          <6> SUFFICES ASSUME NEW i \in 1..n, s[i] = x0 PROVE FALSE
            OBVIOUS
          <6>1. i \in DOMAIN s /\ i # n + 1
            BY <2>3
          <6> QED
            BY <6>1, <3>5, <2>3 DEF IsInjective
        <5> QED
          BY <5>1, <2>1
      <4>2. CASE j \in 1..Len(f[n]) /\ k \in 1..Len(f[n])
        BY <4>2, <3>1, <3>5, <2>1
      <4>3. CASE j \in 1..Len(f[n]) /\ k = Len(f[n]) + 1
        BY <4>3, <4>1, <3>1, <3>5
      <4>4. CASE j = Len(f[n]) + 1 /\ k \in 1..Len(f[n])
        BY <4>4, <4>1, <3>1, <3>5
      <4>5. CASE j = Len(f[n]) + 1 /\ k = Len(f[n]) + 1
        BY <4>5
      <4> QED
        BY SMTT(60), <4>2, <4>3, <4>4, <4>5, <3>1
    <3> QED
      BY <3>1, <3>4, <3>5
  <2> QED
    BY <2>4, <2>5
<1>4. Nat \subseteq G
  <2> HIDE DEF G
  <2> QED
    BY <1>2, <1>3, NaturalInduction
<1>5. Good(Len(s)) /\ Len(s) \in Nat
  <2>1. Len(s) \in Nat
    OBVIOUS
  <2>2. Len(s) \in G
    BY <1>4, <2>1
  <2> QED
    BY <2>1, <2>2
<1> DEFINE a == Among(s, set)
<1>6. a \in Seq(S) /\ DOMAIN a = 1..Len(a) /\ DOMAIN s = 1..Len(s)
  BY <1>1, <1>5
<1>7. \A x : x \in Range(a) <=> x \in Range(s) \cap set
  BY SMTT(60), <1>1, <1>5, <1>6 DEF Range
<1>8. IsInjective(s) => IsInjective(a)
  BY <1>1, <1>5, <1>6 DEF IsInjective
<1> QED
  BY <1>6, <1>7, <1>8

-----------------------------------------------------------------------------
(***************************************************************************)
(* Every step keeps the invariant of the window.  What it says beyond the  *)
(* hand-over:                                                              *)
(***************************************************************************)
Apart ==
  /\ WindowTypes /\ Numbered /\ WaitersTalk /\ OneEach /\ NoneDeleted
  /\ ClosingIdle /\ ConversationsApart /\ NothingDeletedInUse

(* Opening and leaving a dialog, an answer that closes it and an exception  *)
(* in it change nothing that the threads use.                               *)
LEMMA DialogsKeep ==
  ASSUME HandoffInv, Apart, ConnectMenu \/ ConnectCancel \/ ListCancel \/ ListThrows
  PROVE  Apart'
<1> USE DEF Apart
<1>1. UNCHANGED <<pc, vsd, deleted, status, lost, job, on, hasty, closedBusy>>
  BY DEF ConnectMenu, ConnectCancel, ListCancel, ListThrows, rows, threads, conduct,
         vars, history
<1>2. fate' = fate \/ fate' = "terminated"
  BY DEF ConnectMenu, ConnectCancel, ListCancel, ListThrows
<1>3. window' = "connect" => Cardinality(made) < MaxConnections
  BY DEF ConnectMenu, ConnectCancel, ListCancel, ListThrows, LeaveList, Numbered
<1>4. /\ \/ chosen' = chosen /\ listing' = listing
         \/ chosen' = <<>> /\ listing' = 0 /\ window' = "main"
      /\ window' \in Loops \cup Asking \cup {"gone"}
      /\ window' \in {"list"} \cup Asking => window' = window
      /\ window \notin Closing /\ window' \notin Closing
  <2>1. CASE ConnectMenu \/ ConnectCancel \/ ListCancel
    BY <2>1 DEF ConnectMenu, ConnectCancel, ListCancel, LeaveList, AtMain, dialog,
                Loops, Asking, Closing
  <2>2. CASE ListThrows
    BY <2>2 DEF ListThrows, dialog, WindowTypes, Closing
  <2> QED
    BY <2>1, <2>2
<1>5. chosen' \in Seq(Connections) /\ IsInjective(chosen')
      /\ listing' \in 0..Len(chosen') /\ (window' \in Asking => listing' < Len(chosen'))
      /\ (window' \in {"list"} \cup Asking => chosen' = chosen)
  <2>1. <<>> \in Seq(Connections) /\ IsInjective(<<>>) /\ Len(<<>>) = 0
    BY DEF IsInjective
  <2> QED
    <3>1. CASE chosen' = chosen /\ listing' = listing
      BY <3>1, <1>4 DEF WindowTypes
    <3>2. CASE chosen' = <<>> /\ listing' = 0 /\ window' = "main"
      BY <3>2, <2>1 DEF Asking, Closing
    <3> QED
      BY <3>1, <3>2, <1>4
<1>6. WindowTypes'
  <2>1. ClosedRows' = ClosedRows
    BY <1>4 DEF ClosedRows
  <2> QED
    BY <2>1, <1>1, <1>2, <1>4, <1>5 DEF WindowTypes
<1>7. Numbered'
  BY <1>1, <1>3 DEF Numbered, made, tv
<1>8. WaitersTalk' /\ NoneDeleted' /\ ClosingIdle'
  BY <1>1, <1>4 DEF WaitersTalk, NoneDeleted, Unfinished, ClosingIdle
<1>9. OneEach'
  BY <1>1, <1>2, <1>4, <1>5 DEF OneEach, Unfinished, Asking
<1>10. ConversationsApart' /\ NothingDeletedInUse'
  BY <1>1, <1>2 DEF ConversationsApart, NothingDeletedInUse
<1> QED
  BY <1>6, <1>7, <1>8, <1>9, <1>10

(* A connection is made, with the next number.                              *)
LEMMA ConnectKeeps ==
  ASSUME HandoffInv, Apart, ConnectOk
  PROVE  Apart'
<1> USE DEF Apart
<1> DEFINE c == Cardinality(made) + 1
<1>1. /\ fate = "fine" /\ window = "connect" /\ window' = "main"
      /\ vsd' = Append(vsd, c)
      /\ UNCHANGED <<pc, deleted, status, lost, chosen, listing, job, on, fate, hasty,
                     closedBusy>>
  BY DEF ConnectOk, dialog, threads, conduct, vars, history
<1>2. PICK n \in Nat : made = 1..n
  BY DEF Numbered
<1>3. Cardinality(made) = n
  BY <1>2, FS_Interval
<1>4. c = n + 1 /\ c \in Connections /\ c \notin made
  <2>1. n < MaxConnections
    BY <1>1, <1>3 DEF Numbered
  <2>2. c = n + 1
    BY <1>3
  <2> HIDE DEF c
  <2> QED
    BY <2>1, <2>2, <1>2, WindowAssumption DEF Connections
<1> HIDE DEF c
<1>5. /\ vsd' \in Seq(Connections) /\ Len(vsd') = Len(vsd) + 1 /\ Len(vsd) \in Nat
      /\ \A i \in 1..Len(vsd) : vsd'[i] = vsd[i]
      /\ vsd'[Len(vsd) + 1] = c
      /\ DOMAIN vsd = 1..Len(vsd) /\ DOMAIN vsd' = 1..Len(vsd')
  BY <1>1, <1>4, AppendFacts DEF WindowTypes
<1>6. Range(vsd') = Range(vsd) \cup {c}
  BY <1>5 DEF Range
<1>7. IsInjective(vsd')
  <2>1. \A i \in 1..Len(vsd) : vsd[i] # c
    BY <1>4, <1>5 DEF made, Range
  <2>2. IsInjective(vsd)
    BY DEF WindowTypes
  <2> QED
    BY <2>1, <2>2, <1>5 DEF IsInjective
<1>8. WindowTypes'
  <2>1. ClosedRows = {} /\ ClosedRows' = {} /\ window' \notin {"list"} \cup Asking
    BY <1>1 DEF ClosedRows, Closing, Asking
  <2>2. deleted' \subseteq Connections /\ deleted' \cap Range(vsd') = {}
    BY <2>1, <1>1, <1>4, <1>6 DEF WindowTypes, made
  <2> QED
    BY <2>1, <2>2, <1>1, <1>5, <1>7 DEF WindowTypes, Loops
<1>9. Numbered'
  <2>1. made' = 1..n + 1
    BY <1>1, <1>2, <1>4, <1>6 DEF made
  <2>2. tv' = tv
    BY <1>1 DEF tv
  <2> QED
    BY <2>1, <2>2, <1>1 DEF Numbered
<1>10. WaitersTalk' /\ NoneDeleted' /\ OneEach' /\ ClosingIdle'
  BY <1>1 DEF WaitersTalk, NoneDeleted, Unfinished, OneEach, ClosingIdle, Closing
<1>11. ConversationsApart' /\ NothingDeletedInUse'
  BY <1>1 DEF ConversationsApart, NothingDeletedInUse
<1> QED
  BY <1>8, <1>9, <1>10, <1>11

(* A list is asked for: where the status shows no command, there is none    *)
(* that talks.                                                              *)
LEMMA ListKeeps ==
  ASSUME HandoffInv, Apart, NEW selected \in SUBSET Connections, ListAction(selected)
  PROVE  Apart'
<1> USE DEF Apart
<1> DEFINE sel == Among(vsd, selected)
<1>1. /\ fate = "fine" /\ window = "main" /\ MayList(sel)
      /\ window' = "listing" /\ chosen' = sel /\ listing' = 0
      /\ fate' = IF Talking(sel[1]) THEN "mixed" ELSE fate
      /\ hasty' = (hasty \/ \E t \in Threads : job[t] = "created" /\ on[t] \in selected)
      /\ UNCHANGED <<pc, vsd, deleted, status, lost, job, on, closedBusy>>
  BY DEF ListAction, AtMain, rows, threads, vars, history
<1>2. /\ sel \in Seq(Connections)
      /\ Range(sel) = Range(vsd) \cap selected
      /\ IsInjective(sel)
  BY AmongFacts DEF WindowTypes
<1> HIDE DEF sel
<1>3. Len(sel) \in Nat \ {0} /\ DOMAIN sel = 1..Len(sel)
      /\ \A i \in 1..Len(sel) : status[sel[i]] # "Processing"
  BY <1>1, <1>2 DEF MayList
<1>4. ~hasty => \A t \in Threads : job[t] = "talking" => on[t] \notin Range(sel)
  BY <1>1, <1>3 DEF OneEach, Range
<1>5. ~hasty => ~Talking(sel[1])
  <2>1. sel[1] \in Range(sel)
    BY <1>3 DEF Range
  <2> QED
    BY <2>1, <1>4 DEF Talking
<1>6. hasty' \in BOOLEAN /\ (hasty => hasty')
  BY <1>1 DEF WindowTypes
<1>7. WindowTypes'
  <2>1. Range(chosen') \subseteq Range(vsd') /\ listing' < Len(chosen')
        /\ listing' \in 0..Len(chosen')
    BY <1>1, <1>2, <1>3
  <2>2. ClosedRows = {} /\ ClosedRows' = {} /\ window' \in Asking
    BY <1>1 DEF ClosedRows, Closing, Asking
  <2> QED
    BY <2>1, <2>2, <1>1, <1>2, <1>6 DEF WindowTypes
<1>8. Numbered'
  BY <1>1 DEF Numbered, made, tv
<1>9. WaitersTalk' /\ NoneDeleted' /\ ClosingIdle'
  BY <1>1 DEF WaitersTalk, NoneDeleted, Unfinished, ClosingIdle, Closing
<1>10. OneEach'
  <2> SUFFICES ASSUME ~hasty' PROVE OneEach'
    BY DEF OneEach
  <2>1. ~hasty /\ \A t \in Threads : job[t] = "created" => on[t] \notin selected
    BY <1>1
  <2>2. \A t \in Threads : Unfinished(t) => on[t] \notin Range(sel)
    BY <2>1, <1>2, <1>4 DEF Unfinished
  <2> QED
    BY <2>1, <2>2, <1>1 DEF OneEach, Unfinished
<1>11. ConversationsApart' /\ NothingDeletedInUse'
  BY <1>1, <1>5, <1>6 DEF ConversationsApart, NothingDeletedInUse
<1> QED
  BY <1>7, <1>8, <1>9, <1>10, <1>11

(* A close button begins with its first row: whatever runs on it is noted.  *)
LEMMA CloseBegins ==
  ASSUME HandoffInv, Apart, NEW where \in Closing, NEW sel \in Seq(Connections),
         AtMain, sel # <<>>, IsInjective(sel), Range(sel) \subseteq Range(vsd),
         CloseRows(where, sel)
  PROVE  Apart'
<1> USE DEF Apart
<1>1. /\ fate = "fine" /\ window = "main"
      /\ window' = where /\ chosen' = sel /\ listing' = 0
      /\ fate' = IF Talking(sel[1]) THEN "mixed" ELSE fate
      /\ closedBusy' = (closedBusy \/ \E t \in Threads : Unfinished(t) /\ on[t] = sel[1])
      /\ UNCHANGED <<pc, vsd, deleted, status, lost, job, on, hasty>>
  BY DEF CloseRows, SendClose, AtMain, rows, threads, vars, history
<1>2. closedBusy' \in BOOLEAN /\ (closedBusy => closedBusy')
  BY <1>1 DEF WindowTypes
<1>3. window' \in Closing /\ window' \in Asking /\ window \notin Closing
      /\ window' \notin {"connect", "list", "listing"}
  BY <1>1 DEF Closing, Asking
<1>4. WindowTypes'
  <2>1. Len(sel) \in Nat \ {0} /\ listing' \in 0..Len(chosen') /\ listing' < Len(chosen')
    BY <1>1
  <2>2. ClosedRows = {} /\ ClosedRows' = {}
    BY <1>1, <1>3 DEF ClosedRows
  <2> QED
    BY <2>1, <2>2, <1>1, <1>2, <1>3 DEF WindowTypes
<1>5. Numbered'
  BY <1>1, <1>3 DEF Numbered, made, tv
<1>6. WaitersTalk' /\ OneEach' /\ NoneDeleted'
  BY <1>1, <1>2, <1>3 DEF WaitersTalk, Unfinished, OneEach, NoneDeleted
<1>7. ClosingIdle'
  <2>1. listing' + 1 = 1 /\ chosen'[1] = sel[1]
    BY <1>1
  <2>2. \A t \in Threads : (Unfinished(t)' <=> Unfinished(t)) /\ on'[t] = on[t]
    BY <1>1 DEF Unfinished
  <2>3. ~closedBusy' => \A t \in Threads : Unfinished(t) => on[t] # sel[1]
    BY <1>1
  <2> QED
    BY <2>1, <2>2, <2>3 DEF ClosingIdle
<1>8. fate' = "mixed" => closedBusy'
  BY <1>1 DEF Talking, Unfinished
<1>9. ConversationsApart' /\ NothingDeletedInUse'
  BY <1>1, <1>8 DEF ConversationsApart, NothingDeletedInUse
<1> QED
  BY <1>4, <1>5, <1>6, <1>7, <1>9

LEMMA CloseActionKeeps ==
  ASSUME HandoffInv, Apart, NEW selected \in SUBSET Connections, CloseAction(selected)
  PROVE  Apart'
<1> DEFINE sel == Among(vsd, selected)
<1>1. sel \in Seq(Connections) /\ IsInjective(sel) /\ Range(sel) \subseteq Range(vsd)
  BY AmongFacts DEF Apart, WindowTypes
<1>2. AtMain /\ sel # <<>> /\ CloseRows("closing", sel)
  BY DEF CloseAction
<1> HIDE DEF sel
<1> QED
  BY <1>1, <1>2, CloseBegins DEF Closing

LEMMA QuitKeeps ==
  ASSUME HandoffInv, Apart, Quit
  PROVE  Apart'
<1>1. CASE vsd # <<>> /\ CloseRows("quitting", vsd)
  BY <1>1, CloseBegins DEF Quit, Closing, Apart, WindowTypes
<1>2. CASE /\ vsd = <<>> /\ window' = "gone"
           /\ UNCHANGED <<vars, rows, status, lost, dialog, threads, fate, conduct>>
  <2> USE DEF Apart
  <2>1. /\ window = "main" /\ window' = "gone"
        /\ UNCHANGED <<pc, vsd, deleted, status, lost, chosen, listing, job, on, fate, hasty,
                       closedBusy>>
    BY <1>2 DEF Quit, AtMain, rows, dialog, threads, conduct, vars, history
  <2>2. window \notin Closing /\ window' \notin {"list", "listing", "connect"} \cup Closing
    BY <2>1 DEF Closing
  <2>3. ClosedRows' = ClosedRows
    BY <2>2 DEF ClosedRows
  <2>4. WindowTypes'
    BY <2>1, <2>2, <2>3 DEF WindowTypes, Asking
  <2>5. Numbered' /\ WaitersTalk' /\ NoneDeleted' /\ OneEach' /\ ClosingIdle'
    BY <2>1, <2>2 DEF Numbered, made, tv, WaitersTalk, NoneDeleted, Unfinished, OneEach,
                      ClosingIdle
  <2>6. ConversationsApart' /\ NothingDeletedInUse'
    BY <2>1 DEF ConversationsApart, NothingDeletedInUse
  <2> QED
    BY <2>4, <2>5, <2>6
<1> QED
  BY <1>1, <1>2 DEF Quit

(* A connection is closed and deleted, and the next one is closed, or the   *)
(* rows are erased.                                                         *)
LEMMA CloseEndsKeeps ==
  ASSUME HandoffInv, Apart, CloseEnds
  PROVE  Apart'
<1> USE DEF Apart
<1> DEFINE c == chosen[listing + 1]
           n == Len(chosen)
<1>1. /\ fate = "fine" /\ window \in Closing /\ deleted' = deleted \cup {c}
      /\ UNCHANGED <<pc, status, lost, job, on, hasty>>
  BY DEF CloseEnds, threads, vars, history
<1>2. /\ listing \in Nat /\ n \in Nat /\ listing + 1 \in 1..n
      /\ \A i \in 1..n : chosen[i] \in Range(vsd) /\ chosen[i] \in Connections
      /\ Range(chosen) = {chosen[i] : i \in 1..n}
  <2>1. window \in Asking /\ chosen \in Seq(Connections)
    BY <1>1 DEF Asking, WindowTypes
  <2>2. n \in Nat /\ DOMAIN chosen = 1..n /\ \A i \in 1..n : chosen[i] \in Connections
    BY <2>1
  <2>3. listing \in 0..n /\ listing < n /\ Range(chosen) \subseteq Range(vsd)
    BY <2>1 DEF WindowTypes
  <2> HIDE DEF n
  <2>4. listing \in Nat /\ listing + 1 \in 1..n
    BY <2>2, <2>3
  <2> QED
    BY <2>2, <2>3, <2>4 DEF Range
<1>3. /\ deleted \subseteq Connections
      /\ deleted \cap Range(vsd) = {chosen[i] : i \in 1..listing}
      /\ vsd \in Seq(Connections) /\ IsInjective(vsd) /\ closedBusy \in BOOLEAN
  BY <1>1 DEF WindowTypes, ClosedRows
<1>4. deleted' \subseteq Connections
      /\ deleted' \cap Range(vsd) = {chosen[i] : i \in 1..listing + 1}
  <2> HIDE DEF n
  <2>1. \A i \in Nat : i \in 1..listing + 1 <=> i \in 1..listing \/ i = listing + 1
    BY <1>2
  <2>2. \A i : i \in 1..listing + 1 <=> i \in 1..listing \/ i = listing + 1
    BY <2>1, <1>2
  <2>3. {chosen[i] : i \in 1..listing + 1} = {chosen[i] : i \in 1..listing} \cup {c}
    BY <2>2
  <2>4. c \in Range(vsd) /\ c \in Connections
    BY <1>2
  <2> HIDE DEF c
  <2> QED
    BY <1>1, <1>3, <2>3, <2>4
<1>5. ~closedBusy => \A t \in Threads : Unfinished(t) => on[t] \notin deleted'
  BY <1>1 DEF NoneDeleted, ClosingIdle
<1>7. tv' = tv /\ \A t \in Threads : Unfinished(t)' <=> Unfinished(t)
  BY <1>1 DEF tv, Unfinished
<1>8. CASE /\ listing + 1 < n /\ listing' = listing + 1
           /\ SendClose(chosen[listing' + 1])
           /\ UNCHANGED <<window, vsd, chosen>>
  <2> DEFINE d == chosen[listing' + 1]
  <2>1. /\ fate' = IF Talking(d) THEN "mixed" ELSE fate
        /\ closedBusy' = (closedBusy \/ \E t \in Threads : Unfinished(t) /\ on[t] = d)
        /\ UNCHANGED <<window, vsd, chosen>>
    BY <1>8 DEF SendClose
  <2>2. closedBusy' \in BOOLEAN /\ (closedBusy => closedBusy')
    BY <2>1, <1>3
  <2>3. window' \in Closing /\ window' \notin {"connect", "list", "listing"}
    BY <1>1, <2>1 DEF Closing
  <2>4. ClosedRows' = {chosen[i] : i \in 1..listing + 1}
    BY <2>1, <2>3, <1>8 DEF ClosedRows
  <2>5. listing' \in 0..Len(chosen') /\ listing' < Len(chosen')
    <3> HIDE DEF n
    <3>1. listing + 1 \in 0..n /\ listing + 1 < n
      BY <1>2, <1>8
    <3> QED
      BY <3>1, <2>1, <1>8 DEF n
  <2>6. WindowTypes'
    <3>1. fate' \in {"fine", "mixed", "deleted", "terminated"}
      BY <1>1, <2>1
    <3>2. /\ deleted' \subseteq Connections /\ deleted' \cap Range(vsd') = ClosedRows'
          /\ window' \in {"list"} \cup Asking => Range(chosen') \subseteq Range(vsd')
      BY <1>2, <1>4, <2>1, <2>4
    <3> HIDE DEF d
    <3> QED
      BY <3>1, <3>2, <1>1, <2>1, <2>2, <2>5 DEF WindowTypes
  <2>7. Numbered'
    <3>1. made' = made
      BY <1>1, <1>2, <2>1 DEF made
    <3> QED
      BY <3>1, <1>7, <2>1 DEF Numbered
  <2>8. WaitersTalk' /\ OneEach' /\ NoneDeleted'
    BY <1>1, <1>5, <1>7, <2>2, <2>3 DEF WaitersTalk, OneEach, NoneDeleted
  <2>9. ClosingIdle'
    BY <1>1, <1>7, <2>1 DEF ClosingIdle
  <2>10. fate' = "mixed" => closedBusy'
    BY <1>1, <2>1 DEF Talking, Unfinished
  <2>11. ConversationsApart' /\ NothingDeletedInUse'
    BY <1>1, <2>1, <2>10 DEF ConversationsApart, NothingDeletedInUse
  <2> QED
    BY <2>6, <2>7, <2>8, <2>9, <2>11
<1>9. CASE /\ listing + 1 = n
           /\ window' = IF window = "closing" THEN "main" ELSE "gone"
           /\ vsd' = Erased(vsd, Range(chosen)) /\ chosen' = <<>> /\ listing' = 0
           /\ UNCHANGED <<fate, closedBusy>>
  <2>1. /\ vsd' \in Seq(Connections) /\ IsInjective(vsd')
        /\ Range(vsd') = Range(vsd) \cap (Connections \ Range(chosen))
    BY <1>3, <1>9, AmongFacts DEF Erased
  <2>2. <<>> \in Seq(Connections) /\ IsInjective(<<>>) /\ Len(<<>>) = 0
    BY DEF IsInjective
  <2>3. /\ window' \in Loops \cup {"gone"}
        /\ window' \notin {"list", "connect"} \cup Asking /\ window' \notin Closing
    BY <1>9 DEF Loops, Asking, Closing
  <2>4. deleted' \cap Range(vsd) = Range(chosen)
    BY <1>2, <1>4, <1>9
  <2>5. WindowTypes'
    <3>1. ClosedRows' = {}
      BY <2>3 DEF ClosedRows
    <3>2. deleted' \cap Range(vsd') = {}
      BY <2>1, <2>4
    <3> HIDE DEF c, n
    <3> QED
      BY <3>1, <3>2, <1>1, <1>4, <1>9, <2>1, <2>2, <2>3 DEF WindowTypes
  <2>6. Numbered'
    <3>1. Range(vsd) \subseteq Connections
      BY <1>3 DEF Range
    <3>2. made' = made
      BY <3>1, <1>1, <1>2, <2>1, <2>4 DEF made
    <3> QED
      BY <3>2, <1>7, <2>3 DEF Numbered
  <2>7. WaitersTalk' /\ OneEach' /\ NoneDeleted' /\ ClosingIdle'
    BY <1>1, <1>5, <1>7, <1>9, <2>3 DEF WaitersTalk, OneEach, NoneDeleted, ClosingIdle,
                                        Asking
  <2>8. ConversationsApart' /\ NothingDeletedInUse'
    BY <1>1, <1>9 DEF ConversationsApart, NothingDeletedInUse
  <2> QED
    BY <2>5, <2>6, <2>7, <2>8
<1> QED
  BY <1>8, <1>9 DEF CloseEnds

(* A server sends its list, and the next one is asked for its own.          *)
LEMMA AnswerKeeps ==
  ASSUME HandoffInv, Apart, ListAnswer
  PROVE  Apart'
<1> USE DEF Apart
<1>1. /\ fate = "fine" /\ window = "listing"
      /\ UNCHANGED <<pc, vsd, deleted, status, lost, job, on, hasty, closedBusy>>
  BY DEF ListAnswer, rows, threads, conduct, vars, history
<1>2. \/ /\ listing + 1 < Len(chosen) /\ listing' = listing + 1
         /\ fate' = IF Talking(chosen[listing + 2]) THEN "mixed" ELSE fate
         /\ window' = window /\ chosen' = chosen
      \/ window' = "list" /\ listing' = 0 /\ fate' = fate /\ chosen' = chosen
      \/ window' = "main" /\ listing' = 0 /\ fate' = fate /\ chosen' = <<>>
  <2>1. listing \in Nat
    BY DEF WindowTypes
  <2>2. listing' = listing + 1 => listing' + 1 = listing + 2
    BY <2>1
  <2> QED
    BY <2>2 DEF ListAnswer, LeaveList
<1>3. chosen' \in Seq(Connections) /\ IsInjective(chosen')
      /\ listing' \in 0..Len(chosen') /\ (window' = "listing" => listing' < Len(chosen'))
      /\ (window' \in {"list", "listing"} => chosen' = chosen)
      /\ window' \in {"listing", "list", "main"}
  <2>1. <<>> \in Seq(Connections) /\ IsInjective(<<>>) /\ Len(<<>>) = 0
    BY DEF IsInjective
  <2>2. CASE window' = window
    <3>1. listing + 1 < Len(chosen) /\ listing' = listing + 1 /\ chosen' = chosen
      BY <2>2, <1>1, <1>2
    <3>2. Len(chosen) \in Nat /\ listing \in Nat
      BY DEF WindowTypes
    <3> DEFINE n == Len(chosen)
    <3>3. n \in Nat /\ listing + 1 < n
      BY <3>1, <3>2
    <3> HIDE DEF n
    <3>4. listing + 1 \in 0..n /\ listing + 1 < n
      BY <3>2, <3>3
    <3> QED
      BY <2>2, <3>1, <3>4, <1>1 DEF n, WindowTypes
  <2>3. CASE window' = "list"
    BY <2>3, <1>1, <1>2 DEF WindowTypes
  <2>4. CASE window' = "main"
    BY <2>1, <2>4, <1>1, <1>2
  <2> QED
    BY <2>2, <2>3, <2>4, <1>2
<1>4. \/ fate' = fate
      \/ /\ fate' = "mixed" /\ Talking(chosen[listing + 2])
         /\ listing + 2 \in 1..Len(chosen)
  <2>1. Len(chosen) \in Nat /\ listing \in Nat
    BY DEF WindowTypes
  <2>2. listing + 1 < Len(chosen) => listing + 2 \in 1..Len(chosen)
    <3> DEFINE n == Len(chosen)
    <3>1. n \in Nat
      BY <2>1
    <3> HIDE DEF n
    <3>2. listing + 1 < n => listing + 2 \in 1..n
      BY <2>1, <3>1
    <3> QED
      BY <3>2 DEF n
  <2>3. CASE /\ listing + 1 < Len(chosen)
             /\ fate' = IF Talking(chosen[listing + 2]) THEN "mixed" ELSE fate
    <3>1. CASE Talking(chosen[listing + 2])
      BY <3>1, <2>2, <2>3
    <3>2. CASE ~Talking(chosen[listing + 2])
      BY <3>2, <2>3
    <3> QED
      BY <3>1, <3>2
  <2>4. CASE fate' = fate
    BY <2>4
  <2> QED
    BY <2>3, <2>4, <1>2
<1>5. fate' = "mixed" => hasty
  <2> SUFFICES ASSUME ~hasty, Talking(chosen[listing + 2]),
                      listing + 2 \in 1..Len(chosen)
               PROVE  FALSE
    BY <1>1, <1>4
  <2>1. PICK t \in Threads : job[t] = "talking" /\ on[t] = chosen[listing + 2]
    BY DEF Talking
  <2>2. on[t] \in Range(chosen)
    BY <2>1 DEF Range, WindowTypes
  <2> QED
    BY <2>1, <2>2, <1>1 DEF OneEach, Unfinished
<1>6. WindowTypes'
  <2>1. /\ window \notin Closing /\ window' \notin Closing /\ window \in Asking
        /\ window' \in Asking <=> window' = "listing"
    BY <1>1, <1>3 DEF Closing, Asking
  <2>2. ClosedRows = {} /\ ClosedRows' = {}
    BY <2>1 DEF ClosedRows
  <2> QED
    BY <2>1, <2>2, <1>1, <1>2, <1>3 DEF WindowTypes, Loops
<1>7. Numbered'
  BY <1>1, <1>2 DEF Numbered, made, tv
<1>8. WaitersTalk' /\ NoneDeleted' /\ ClosingIdle'
  BY <1>1, <1>3 DEF WaitersTalk, NoneDeleted, Unfinished, ClosingIdle, Closing
<1>9. OneEach'
  BY <1>1, <1>3 DEF OneEach, Unfinished
<1>10. ConversationsApart' /\ NothingDeletedInUse'
  BY <1>1, <1>4, <1>5 DEF ConversationsApart, NothingDeletedInUse
<1> QED
  BY <1>6, <1>7, <1>8, <1>9, <1>10

(* Threads are created, with the next ids, one for each server that is      *)
(* chosen: none of these has a thread that has not ended.                   *)
LEMMA ExecuteKeeps ==
  ASSUME HandoffInv, Apart, ListExecute
  PROVE  Apart'
<1> USE DEF Apart
<1> DEFINE new == {t \in Threads : Created(t) \in DOMAIN chosen}
<1>1. /\ fate = "fine" /\ window = "list" /\ window' = "main"
      /\ Cardinality(new) = Len(chosen)
      /\ job' = [t \in Threads |-> IF t \in new THEN "created" ELSE job[t]]
      /\ on' = [t \in Threads |-> IF t \in new THEN chosen[Created(t)] ELSE on[t]]
      /\ chosen' = <<>> /\ listing' = 0
      /\ UNCHANGED <<pc, vsd, deleted, status, lost, fate, hasty, closedBusy>>
  BY DEF ListExecute, LeaveList, rows, conduct, vars, history
<1>2. PICK n \in Nat : tv = 0..(n - 1)
  BY DEF Numbered
<1>3. Cardinality(tv) = n
  BY <1>2, FS_Interval
<1>4. Threads \subseteq Int
  <2>1. Cardinality(Threads) \in Nat
    BY WindowAssumption, FS_CardinalityType
  <2> QED
    BY <2>1, WindowAssumption
<1> DEFINE k == Len(chosen)
<1>5. k \in Nat /\ DOMAIN chosen = 1..k
  BY DEF WindowTypes
<1>6. \A t \in Threads : Created(t) = t - n + 1
  BY <1>3 DEF Created
<1>7. \A t \in new : t \in n..(n + k - 1) /\ t - n + 1 \in 1..k
  <2> SUFFICES ASSUME NEW t \in Threads, Created(t) \in DOMAIN chosen
               PROVE  t \in n..(n + k - 1) /\ t - n + 1 \in 1..k
    OBVIOUS
  <2> HIDE DEF k
  <2>1. t \in Int /\ t - n + 1 \in 1..k
    BY <1>4, <1>5, <1>6
  <2> QED
    BY <2>1, <1>5
<1>8. new = n..(n + k - 1)
  <2> DEFINE b == n + k - 1
  <2> HIDE DEF new, k
  <2>1. /\ b \in Int /\ b - n + 1 = k
        /\ k = 0 => n > b
        /\ k # 0 => ~(n > b)
    BY <1>5
  <2>2. new \in SUBSET (n..b)
    BY <1>7
  <2>3. Cardinality(new) = k
    BY <1>1 DEF new, k
  <2> HIDE DEF b
  <2>4. IsFiniteSet(n..b) /\ Cardinality(n..b) = IF n > b THEN 0 ELSE b - n + 1
    BY <2>1, FS_Interval
  <2>5. Cardinality(n..b) = k
    BY <2>1, <2>4
  <2>6. new = n..b
    BY <2>2, <2>3, <2>4, <2>5, FS_Subset
  <2> QED
    BY <2>6 DEF b
<1>9. \A t \in new : t \in Threads /\ t \notin tv /\ job[t] = "none"
  <2>1. \A t \in new : t \in Threads
    OBVIOUS
  <2> HIDE DEF new, k
  <2>2. \A t \in new : t \notin tv
    BY <1>2, <1>5, <1>8
  <2> QED
    BY <2>1, <2>2 DEF tv
<1>10. \A t \in new : chosen[t - n + 1] \in Range(chosen)
                      /\ chosen[t - n + 1] \in Connections
  BY <1>5, <1>7 DEF Range, WindowTypes
<1>11. /\ \A t \in new : job'[t] = "created" /\ on'[t] = chosen[t - n + 1]
       /\ \A t \in Threads : t \notin new => job'[t] = job[t] /\ on'[t] = on[t]
  BY <1>1, <1>6
<1>12. \A t, u \in new : on'[t] = on'[u] => t = u
  <2> SUFFICES ASSUME NEW t \in new, NEW u \in new, on'[t] = on'[u]
               PROVE  t = u
    OBVIOUS
  <2>1. chosen[t - n + 1] = chosen[u - n + 1]
    BY <1>11
  <2>2. t - n + 1 \in 1..k /\ u - n + 1 \in 1..k
    BY <1>7
  <2>3. t - n + 1 = u - n + 1
    BY <2>1, <2>2, <1>5 DEF WindowTypes, IsInjective
  <2>4. t \in Int /\ u \in Int
    BY <1>4
  <2> QED
    BY <2>3, <2>4
<1>13. WindowTypes'
  <2>1. <<>> \in Seq(Connections) /\ IsInjective(<<>>) /\ Len(<<>>) = 0
    BY DEF IsInjective
  <2>2. job' \in [Threads -> {"none", "created", "talking", "ended"}]
    BY <1>1 DEF WindowTypes
  <2>3. \A t \in Threads : /\ on'[t] \in Connections \cup {NoThread}
                           /\ job'[t] # "none" => on'[t] \in Connections
    <3> HIDE DEF new
    <3> QED
      BY <1>10, <1>11 DEF WindowTypes
  <2>4. on' \in [Threads -> Connections \cup {NoThread}]
    <3>1. DOMAIN on' = Threads /\ on' = [t \in Threads |-> on'[t]]
      BY <1>1
    <3> QED
      BY <2>3, <3>1
  <2> HIDE DEF new, k
  <2>5. /\ window' \in Loops
        /\ chosen' = <<>> /\ listing' \in 0..Len(chosen')
        /\ ~(window' \in {"list"} \cup Asking)
    BY <2>1, <1>1 DEF Loops, Asking, Closing
  <2>6. ClosedRows = {} /\ ClosedRows' = {}
    BY <1>1 DEF ClosedRows, Closing
  <2> QED
    BY <2>1, <2>2, <2>3, <2>4, <2>5, <2>6, <1>1 DEF WindowTypes
<1>14. Numbered'
  <2>1. made' = made
    BY <1>1 DEF made
  <2>2. tv' = tv \cup new
    <3> HIDE DEF new
    <3> QED
      BY <1>9, <1>11 DEF tv
  <2>3. tv' = 0..(n + k - 1)
    <3> HIDE DEF new, k
    <3> QED
      BY <1>2, <1>5, <1>8, <2>2
  <2> HIDE DEF new, k
  <2>4. n + k \in Nat
    BY <1>5
  <2>5. \E m \in Nat : tv' = 0..(m - 1)
    <3> DEFINE m == n + k
    <3>1. m \in Nat /\ tv' = 0..(m - 1)
      BY <1>5, <2>3 DEF k
    <3> HIDE DEF m
    <3> QED
      BY <3>1
  <2>6. window' # "connect"
    BY <1>1
  <2> QED
    BY <2>1, <2>5, <2>6 DEF Numbered
<1> HIDE DEF new, k
<1>15. WaitersTalk'
  BY <1>1, <1>9, <1>11 DEF WaitersTalk
<1>16. OneEach'
  <2> SUFFICES ASSUME ~hasty PROVE OneEach'
    BY <1>1 DEF OneEach
  <2>1. /\ \A t \in Threads : job[t] = "talking" => status[on[t]] = "Processing"
        /\ \A t, u \in Threads :
             Unfinished(t) /\ Unfinished(u) /\ on[t] = on[u] => t = u
        /\ \A t \in Threads : Unfinished(t) => on[t] \notin Range(chosen)
    BY <1>1 DEF OneEach
  <2>2. \A t \in Threads : t \notin new => (Unfinished(t)' <=> Unfinished(t))
    BY <1>11 DEF Unfinished
  <2>3. \A t \in Threads : job'[t] = "talking" => status'[on'[t]] = "Processing"
    BY <2>1, <1>1, <1>11
  <2>4. ASSUME NEW t \in Threads, NEW u \in Threads,
               Unfinished(t)', Unfinished(u)', on'[t] = on'[u]
        PROVE  t = u
    <3>1. CASE t \in new /\ u \in new
      BY <3>1, <2>4, <1>12
    <3>2. CASE t \in new /\ u \notin new
      BY <3>2, <2>1, <2>2, <2>4, <1>10, <1>11
    <3>3. CASE t \notin new /\ u \in new
      BY <3>3, <2>1, <2>2, <2>4, <1>10, <1>11
    <3>4. CASE t \notin new /\ u \notin new
      BY <3>4, <2>1, <2>2, <2>4, <1>11
    <3> QED
      BY <3>1, <3>2, <3>3, <3>4
  <2> QED
    BY <2>3, <2>4, <1>1 DEF OneEach
<1>17. NoneDeleted'
  <2>1. Range(chosen) \cap deleted = {}
    BY <1>1 DEF WindowTypes, ClosedRows, Closing
  <2>2. \A t \in Threads : t \notin new => (Unfinished(t)' <=> Unfinished(t))
    BY <1>11 DEF Unfinished
  <2> QED
    BY <2>1, <2>2, <1>1, <1>10, <1>11 DEF NoneDeleted
<1>18. ConversationsApart' /\ NothingDeletedInUse' /\ ClosingIdle'
  BY <1>1 DEF ConversationsApart, NothingDeletedInUse, ClosingIdle, Closing
<1> QED
  BY <1>13, <1>14, <1>15, <1>16, <1>17, <1>18

(* A command begins on a connection on which nothing else goes on.          *)
LEMMA StartKeeps ==
  ASSUME HandoffInv, Apart, NEW t \in Threads, Start(t)
  PROVE  Apart'
<1> USE DEF Apart
<1>1. /\ fate = "fine" /\ job[t] = "created" /\ on[t] \notin deleted
      /\ job' = [job EXCEPT ![t] = "talking"]
      /\ status' = [status EXCEPT ![on[t]] = "Processing"]
      /\ fate' = IF Talking(on[t]) \/ Asked(on[t]) THEN "mixed" ELSE fate
      /\ UNCHANGED <<pc, window, vsd, deleted, lost, chosen, listing, on, hasty,
                     closedBusy>>
  BY DEF Start, rows, dialog, conduct, vars, history
<1>2. on[t] \in Connections
  BY <1>1 DEF WindowTypes
<1>3. /\ \A u \in Threads : Unfinished(u)' <=> Unfinished(u)
      /\ Unfinished(t) /\ job'[t] = "talking"
      /\ \A u \in Threads : u # t => job'[u] = job[u]
  BY <1>1 DEF Unfinished, WindowTypes
<1>4. status'[on[t]] = "Processing"
      /\ \A c \in Connections : c # on[t] => status'[c] = status[c]
  BY <1>1, <1>2 DEF WindowTypes
<1>5. ~hasty /\ ~closedBusy => ~Talking(on[t]) /\ ~Asked(on[t])
  <2> SUFFICES ASSUME ~hasty, ~closedBusy PROVE ~Talking(on[t]) /\ ~Asked(on[t])
    OBVIOUS
  <2>1. ~Talking(on[t])
    <3> SUFFICES ASSUME NEW u \in Threads, job[u] = "talking", on[u] = on[t]
                 PROVE  FALSE
      BY DEF Talking
    <3>1. u = t
      BY <1>1, <1>3 DEF OneEach, Unfinished
    <3> QED
      BY <3>1, <1>1
  <2>2. ~Asked(on[t])
    <3> SUFFICES ASSUME window \in Asking, chosen[listing + 1] = on[t]
                 PROVE  FALSE
      BY DEF Asked
    <3>1. CASE window = "listing"
      <4>1. listing + 1 \in DOMAIN chosen
        BY <3>1 DEF WindowTypes, Asking
      <4>2. on[t] \in Range(chosen)
        BY <4>1 DEF Range
      <4> QED
        BY <3>1, <4>2, <1>1, <1>3 DEF OneEach
    <3>2. CASE window \in Closing
      BY <3>2, <1>1, <1>3 DEF ClosingIdle
    <3> QED
      BY <3>1, <3>2 DEF Asking
  <2> QED
    BY <2>1, <2>2
<1>6. WindowTypes'
  BY <1>1, <1>2 DEF WindowTypes, ClosedRows
<1>7. Numbered'
  <2>1. tv' = tv
    BY <1>1, <1>3 DEF tv
  <2> QED
    BY <2>1, <1>1 DEF Numbered, made
<1>8. WaitersTalk'
  BY <1>1, <1>3 DEF WaitersTalk
<1>9. OneEach'
  <2> SUFFICES ASSUME ~hasty PROVE OneEach'
    BY <1>1 DEF OneEach
  <2>1. \A u \in Threads : job'[u] = "talking" => status'[on'[u]] = "Processing"
    <3> SUFFICES ASSUME NEW u \in Threads, job'[u] = "talking"
                 PROVE  status'[on[u]] = "Processing"
      BY <1>1
    <3>1. CASE on[u] = on[t]
      BY <3>1, <1>4
    <3>2. CASE on[u] # on[t]
      <4>1. u # t /\ job[u] = "talking"
        BY <3>2, <1>3
      <4>2. on[u] \in Connections
        BY <4>1 DEF WindowTypes
      <4> QED
        BY <3>2, <4>1, <4>2, <1>1, <1>4 DEF OneEach
    <3> QED
      BY <3>1, <3>2
  <2> QED
    BY <2>1, <1>1, <1>3 DEF OneEach
<1>10. NoneDeleted' /\ ClosingIdle'
  BY <1>1, <1>3 DEF NoneDeleted, ClosingIdle
<1>11. ConversationsApart' /\ NothingDeletedInUse'
  BY <1>1, <1>5 DEF ConversationsApart, NothingDeletedInUse
<1> QED
  BY <1>6, <1>7, <1>8, <1>9, <1>10, <1>11

(* It asks for parameters and takes them.                                   *)
LEMMA AskKeeps ==
  ASSUME HandoffInv, Apart, NEW t \in Threads, AskAndTake(t)
  PROVE  Apart'
<1> USE DEF Apart
<1>1. /\ job[t] = "talking"
      /\ UNCHANGED <<window, vsd, deleted, status, lost, chosen, listing, job, on, fate,
                     hasty, closedBusy>>
  BY DEF AskAndTake, Running, rows, dialog, threads, conduct
<1>2. \A u \in Threads : pc'[u] = "wait" => pc[u] = "wait" \/ u = t
  BY DEF AskAndTake, Need, Take, HandoffInv, HandoffTypes
<1>3. WaitersTalk'
  BY <1>1, <1>2 DEF WaitersTalk
<1>4. WindowTypes'
  BY <1>1 DEF WindowTypes, ClosedRows
<1>5. Numbered' /\ OneEach'
  BY <1>1 DEF Numbered, made, tv, OneEach, Unfinished
<1>6. NoneDeleted' /\ ClosingIdle' /\ ConversationsApart' /\ NothingDeletedInUse'
  BY <1>1 DEF NoneDeleted, Unfinished, ClosingIdle, ConversationsApart,
              NothingDeletedInUse
<1> QED
  BY <1>3, <1>4, <1>5, <1>6

(* It ends, with success or with an exception.                              *)
LEMMA EndsKeeps ==
  ASSUME HandoffInv, Apart, NEW t \in Threads, Succeed(t) \/ Fail(t)
  PROVE  Apart'
<1> USE DEF Apart
<1> DEFINE new == status'[on[t]]
<1>1. /\ fate = "fine" /\ job[t] = "talking" /\ pc' = [pc EXCEPT ![t] = "done"]
      /\ job' = [job EXCEPT ![t] = "ended"]
      /\ \E st \in {"Idle", "Exception"} : status' = [status EXCEPT ![on[t]] = st]
      /\ lost' \in {lost, lost \cup {on[t]}}
      /\ UNCHANGED <<window, vsd, deleted, chosen, listing, on, fate, hasty, closedBusy>>
  BY DEF Succeed, Finish, Fail, Running, rows, dialog, conduct
<1>2. on[t] \in Connections
  BY <1>1 DEF WindowTypes
<1>3. /\ job'[t] = "ended" /\ ~Unfinished(t)'
      /\ \A u \in Threads : u # t => job'[u] = job[u] /\ pc'[u] = pc[u]
      /\ \A u \in Threads : u # t => (Unfinished(u)' <=> Unfinished(u))
      /\ pc'[t] = "done"
  BY <1>1 DEF Unfinished, WindowTypes, HandoffInv, HandoffTypes
<1>4. \A c \in Connections : c # on[t] => status'[c] = status[c]
  BY <1>1, <1>2 DEF WindowTypes
<1>5. WindowTypes'
  BY <1>1, <1>2 DEF WindowTypes, ClosedRows
<1>6. Numbered'
  <2>1. tv' = tv
    BY <1>1, <1>3 DEF tv
  <2> QED
    BY <2>1, <1>1 DEF Numbered, made
<1>7. WaitersTalk'
  BY <1>1, <1>3 DEF WaitersTalk
<1>8. OneEach'
  <2> SUFFICES ASSUME ~hasty PROVE OneEach'
    BY <1>1 DEF OneEach
  <2>1. \A u \in Threads : job'[u] = "talking" => status'[on'[u]] = "Processing"
    <3> SUFFICES ASSUME NEW u \in Threads, job'[u] = "talking"
                 PROVE  status'[on[u]] = "Processing"
      BY <1>1
    <3>1. u # t /\ job[u] = "talking"
      BY <1>3
    <3>2. on[u] # on[t] /\ on[u] \in Connections
      BY <3>1, <1>1 DEF OneEach, Unfinished, WindowTypes
    <3> QED
      BY <3>1, <3>2, <1>1, <1>4 DEF OneEach
  <2> QED
    BY <2>1, <1>1, <1>3 DEF OneEach
<1>9. NoneDeleted' /\ ClosingIdle'
  BY <1>1, <1>3 DEF NoneDeleted, ClosingIdle
<1>10. ConversationsApart' /\ NothingDeletedInUse'
  BY <1>1 DEF ConversationsApart, NothingDeletedInUse
<1> QED
  BY <1>5, <1>6, <1>7, <1>8, <1>9, <1>10

(* A thread begins with what was deleted.                                   *)
LEMMA UseKeeps ==
  ASSUME HandoffInv, Apart, \E t \in Threads : UseDeleted(t)
  PROVE  Apart'
<1> USE DEF Apart
<1>1. /\ fate' = "deleted"
      /\ UNCHANGED <<pc, window, vsd, deleted, status, lost, chosen, listing, job, on,
                     hasty, closedBusy>>
  BY DEF UseDeleted, rows, dialog, threads, conduct, vars, history
<1>2. closedBusy
  BY DEF UseDeleted, NoneDeleted, Unfinished
<1>3. NothingDeletedInUse' /\ ConversationsApart'
  BY <1>1, <1>2 DEF NothingDeletedInUse, ConversationsApart
<1>4. WindowTypes'
  BY <1>1 DEF WindowTypes, ClosedRows
<1> QED
  BY <1>1, <1>3, <1>4 DEF Numbered, made, tv, OneEach, NoneDeleted, Unfinished, WaitersTalk,
                          ClosingIdle

(* What the invariant speaks of stays as it is.                             *)
LEMMA NothingMoves ==
  ASSUME Apart,
         UNCHANGED <<pc, window, vsd, deleted, status, lost, chosen, listing, job, on, fate,
                     hasty, closedBusy>>
  PROVE  Apart'
<1>1. WindowTypes'
  BY DEF Apart, WindowTypes, ClosedRows
<1>2. Numbered' /\ WaitersTalk'
  BY DEF Apart, Numbered, made, tv, WaitersTalk
<1>3. OneEach'
  BY DEF Apart, OneEach, Unfinished
<1>4. NoneDeleted' /\ ClosingIdle'
  BY DEF Apart, NoneDeleted, Unfinished, ClosingIdle
<1>5. ConversationsApart' /\ NothingDeletedInUse'
  BY DEF Apart, ConversationsApart, NothingDeletedInUse
<1> QED
  BY <1>1, <1>2, <1>3, <1>4, <1>5 DEF Apart

(* The handler of a thread's event goes on.                                 *)
LEMMA HandlerKeeps ==
  ASSUME HandoffInv, Apart, HandlerStep
  PROVE  Apart'
<1>1. UNCHANGED <<pc, window, vsd, deleted, status, lost, chosen, listing, job, on, fate,
                  hasty, closedBusy>>
  BY DEF HandlerStep, GuiStep, Dispatch, EnterSection, CloseDialog, Return, rows, dialog,
         threads, conduct
<1> QED
  BY <1>1, NothingMoves
-----------------------------------------------------------------------------
(***************************************************************************)
(* The theorems.                                                           *)
(***************************************************************************)

(* What a step of the window does to the hand-over.                         *)
LEMMA WindowHandoff ==
  ASSUME [WindowNext]_windowVars
  PROVE  \/ GuiStep \/ UNCHANGED vars
         \/ \E t \in Threads : ThreadStep(t) \/ Gone(t)
<1>1. CASE HandlerStep \/ Answers \/ UserActs
  BY <1>1 DEF Answers, UserActs, HandlerStep, ListAnswer,
              ListThrows, CloseEnds, ConnectMenu, ConnectCancel, ConnectOk, ListAction,
              CloseAction, CloseRows, ListCancel, ListExecute, Quit
<1>2. CASE \E t \in Threads : Work(t) \/ Fail(t)
  BY <1>2 DEF Work, Start, AskAndTake, Succeed, Fail, UseDeleted, ThreadStep, Gone
<1>3. CASE UNCHANGED windowVars
  BY <1>3 DEF windowVars
<1> QED
  BY <1>1, <1>2, <1>3 DEF WindowNext

LEMMA WindowKeeps ==
  ASSUME WindowInv, [WindowNext]_windowVars
  PROVE  WindowInv'
<1>1. HandoffInv /\ Apart
  BY DEF WindowInv, Apart
<1>2. HandoffInv'
  BY <1>1, WindowHandoff, HandoffKeeps
<1>3. ASSUME HandlerStep PROVE Apart'
  BY <1>1, <1>3, HandlerKeeps
<1>4. ASSUME Answers PROVE Apart'
  BY <1>1, <1>4, AnswerKeeps, DialogsKeep, CloseEndsKeeps DEF Answers
<1>5. ASSUME UserActs PROVE Apart'
  BY <1>1, <1>5, DialogsKeep, ConnectKeeps, ListKeeps, CloseActionKeeps, ExecuteKeeps,
     QuitKeeps DEF UserActs
<1>6. ASSUME \E t \in Threads : Work(t) \/ Fail(t) PROVE Apart'
  BY <1>1, <1>6, StartKeeps, AskKeeps, EndsKeeps, UseKeeps DEF Work
<1>7. ASSUME UNCHANGED windowVars PROVE Apart'
  <2>1. UNCHANGED <<pc, window, vsd, deleted, status, lost, chosen, listing, job, on, fate,
                    hasty, closedBusy>>
    BY <1>7 DEF windowVars, vars, rows, dialog, threads, conduct
  <2> QED
    BY <1>1, <2>1, NothingMoves
<1>8. Apart'
  BY <1>3, <1>4, <1>5, <1>6, <1>7 DEF WindowNext
<1> QED
  BY <1>2, <1>8 DEF WindowInv, Apart

LEMMA WindowStarts == ASSUME WindowInit PROVE WindowInv
<1>1. HandoffInv
  BY HandoffStarts DEF WindowInit
<1> USE DEF WindowInit
<1>2. WindowTypes
  <2>1. <<>> \in Seq(Connections) /\ IsInjective(<<>>) /\ Len(<<>>) = 0 /\ Range(<<>>) = {}
    BY DEF IsInjective, Range
  <2>2. /\ window \in Loops /\ vsd \in Seq(Connections) /\ IsInjective(vsd)
        /\ deleted \subseteq Connections /\ deleted \cap Range(vsd) = ClosedRows
        /\ window \notin {"list"} \cup Asking
        /\ status \in [Connections -> {"Idle", "Processing", "Exception"}]
        /\ lost \subseteq Connections
    BY <2>1 DEF Loops, ClosedRows, Closing, Asking
  <2>3. /\ chosen \in Seq(Connections) /\ IsInjective(chosen)
        /\ listing \in 0..Len(chosen)
    BY <2>1
  <2>4. /\ job \in [Threads -> {"none", "created", "talking", "ended"}]
        /\ on \in [Threads -> Connections \cup {NoThread}]
        /\ \A t \in Threads : job[t] # "none" => on[t] \in Connections
        /\ fate = "fine" /\ hasty \in BOOLEAN /\ closedBusy \in BOOLEAN
    OBVIOUS
  <2> QED
    BY <2>2, <2>3, <2>4 DEF WindowTypes
<1>3. Numbered
  <2>1. made = {} /\ tv = {}
    BY DEF made, Range, tv
  <2>2. made = 1..0 /\ tv = 0..(0 - 1)
    BY <2>1
  <2> QED
    BY <2>2 DEF Numbered
<1>4. WaitersTalk /\ OneEach /\ NoneDeleted /\ ClosingIdle
  BY DEF WaitersTalk, OneEach, NoneDeleted, Unfinished, ClosingIdle, Closing, Init
<1> QED
  BY <1>1, <1>2, <1>3, <1>4 DEF WindowInv, ConversationsApart, NothingDeletedInUse

(* The invariant is one: in every state of wxRCF each thread that waits for *)
(* a parameter is in one place, the status tells who talks on a connection, *)
(* and rows, connections and threads are numbered as they are made.         *)
THEOREM WindowInductive == WindowSpec => []WindowInv
<1>1. WindowInit => WindowInv
  BY WindowStarts
<1>2. WindowInv /\ [WindowNext]_windowVars => WindowInv'
  BY WindowKeeps
<1> QED
  BY <1>1, <1>2, PTL DEF WindowSpec

(* Variables have their types, the GUI is in the critical section once for  *)
(* each dialog, and no row is of a connection that was deleted.             *)
THEOREM WindowTypeCorrect == WindowSpec => []WindowTypeOK
<1>1. WindowInv => WindowTypeOK
  BY HandoffPromises DEF WindowInv, WindowTypes, WindowTypeOK, ClosedRows
<1> QED
  BY <1>1, WindowInductive, PTL

(* Two conversations never share a connection but for a hasty list and a    *)
(* connection closed in use: see ConversationsApart.                        *)
THEOREM NeverMixed == WindowSpec => []ConversationsApart
<1>1. WindowInv => ConversationsApart
  BY DEF WindowInv
<1> QED
  BY <1>1, WindowInductive, PTL

(* No thread and no handler uses a deleted connection, unless one was       *)
(* closed before its command had ended.                                     *)
THEOREM NeverDeletedInUse == WindowSpec => []NothingDeletedInUse
<1>1. WindowInv => NothingDeletedInUse
  BY DEF WindowInv
<1> QED
  BY <1>1, WindowInductive, PTL

(* No thread takes a parameter before a dialog was answered for it.         *)
THEOREM ParametersAreAnswered == WindowSpec => []NoEarlyParameter
<1>1. WindowInv => NoEarlyParameter
  BY HandoffPromises DEF WindowInv
<1> QED
  BY <1>1, WindowInductive, PTL

(* A thread gets what was typed for it, in order, as long as no dialog was  *)
(* opened over another one, whatever the user does in the windows.          *)
THEOREM ParametersAreRight == WindowSpec => []RightParameterInTurn
<1>1. WindowInv => RightParameterInTurn
  BY HandoffPromises DEF WindowInv
<1> QED
  BY <1>1, WindowInductive, PTL
=============================================================================

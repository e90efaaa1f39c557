------------------------------- MODULE Window -------------------------------
(***************************************************************************)
(* wxRCF: the main window, its dialogs, the connections and the threads    *)
(* that execute commands on them, around the hand-over of parameters of    *)
(* ParamHandoff.                                                           *)
(*                                                                         *)
(* The GUI is one thread.  A modal dialog disables the windows under it    *)
(* and has an event loop of its own, so the user acts on the innermost     *)
(* dialog only, while events of execute threads are dispatched in any      *)
(* loop.  No loop runs while the GUI itself talks to servers: while the    *)
(* list dialog fetches their lists and a close button closes them.         *)
(*                                                                         *)
(* Two things the program leaves undefined end a behaviour here, with what *)
(* has happened in fate: two conversations on one connection, and the use  *)
(* of a connection that was deleted.                                       *)
(***************************************************************************)
EXTENDS ParamHandoff, SequencesExt

CONSTANT MaxConnections  \* bound: ServerData objects made, one per connection

\* A thread's id is its place in tv.
ASSUME WindowAssumption ==
  /\ IsFiniteSet(Threads) /\ Threads = 0..(Cardinality(Threads) - 1)
  /\ MaxConnections \in Nat

Connections == 1..MaxConnections

\* The members of a sequence that are in a set, in their order: SelectSeq, as
\* a recursive function that can be reasoned about.
Among(s, set) ==
  LET upTo[i \in 0..Len(s)] == IF i = 0 THEN <<>>
                               ELSE IF s[i] \in set THEN Append(upTo[i - 1], s[i])
                               ELSE upTo[i - 1]
  IN  upTo[Len(s)]

VARIABLES
  window,     \* where the GUI is: at the main window, in the connect dialog,
              \* "listing" in the list dialog's OnInitDialog, in it, "closing"
              \* rows, "quitting" (closing all of them), or gone
  vsd,        \* the rows of the main window
  deleted,    \* the connections closed and deleted
  status,     \* ServerData::status, without the text of an exception
  lost,       \* connections that the server has ended
  chosen,     \* the list dialog's _processedServers, or the rows to close
  listing,    \* how many of them have sent their list, or are closed
  job,        \* how far each thread is: none, created, talking, ended
  on,         \* the connection of each thread
  fate,       \* "fine", or the end of the program
  hasty,      \* auxiliary: a list was asked for before a command had started
  closedBusy  \* auxiliary: a connection was closed before its command ended

rows == <<vsd, deleted>>
dialog == <<chosen, listing>>
threads == <<job, on>>
conduct == <<hasty, closedBusy>>
windowVars == <<vars, window, rows, status, lost, dialog, threads, fate, conduct>>

WindowInit ==
  /\ Init
  /\ window = "main"
  /\ vsd = <<>> /\ deleted = {}
  /\ status = [c \in Connections |-> "Idle"] /\ lost = {}
  /\ chosen = <<>> /\ listing = 0
  /\ job = [t \in Threads |-> "none"]
  /\ on = [t \in Threads |-> NoThread]
  /\ fate = "fine" /\ hasty = FALSE /\ closedBusy = FALSE

Unfinished(t) == job[t] \in {"created", "talking"}
Talking(c) == \E t \in Threads : job[t] = "talking" /\ on[t] = c
\* In these windows the GUI waits for the answer of a server, on this one's
\* connection.
Closing == {"closing", "quitting"}
Asking == {"listing"} \cup Closing
Asked(c) == window \in Asking /\ chosen[listing + 1] = c
-----------------------------------------------------------------------------
(* The main window, when no dialog is open.                                 *)
AtMain == fate = "fine" /\ window = "main" /\ handlers = <<>>

made == Range(vsd) \cup deleted

ConnectMenu ==
  /\ AtMain /\ Cardinality(made) < MaxConnections
  /\ window' = "connect"
  /\ UNCHANGED <<vars, rows, status, lost, dialog, threads, fate, conduct>>

\* The client connects and logs in, and the dialog is closed: ShowModal
\* returns to the main window, which adds a row for the new ServerData.  When
\* that fails the dialog stays.
ConnectOk ==
  /\ fate = "fine" /\ window = "connect" /\ handlers = <<>>
  /\ window' = "main" /\ vsd' = Append(vsd, Cardinality(made) + 1)
  /\ UNCHANGED <<vars, deleted, status, lost, dialog, threads, fate, conduct>>

ConnectCancel ==
  /\ fate = "fine" /\ window = "connect" /\ handlers = <<>>
  /\ window' = "main"
  /\ UNCHANGED <<vars, rows, status, lost, dialog, threads, fate, conduct>>

\* Mutant of MayList: the status of the first selected server only is looked at.
MayListFirst(sel) == sel # <<>> /\ status[sel[1]] # "Processing"

\* The list button is refused while a selected server executes a command.
MayList(sel) ==
  sel # <<>> /\ \A i \in DOMAIN sel : status[sel[i]] # "Processing"

ListAction(selected) ==
  LET sel == Among(vsd, selected) IN
  /\ AtMain /\ MayList(sel)
  /\ window' = "listing" /\ chosen' = sel /\ listing' = 0
  /\ fate' = IF Talking(sel[1]) THEN "mixed" ELSE fate
  /\ hasty' = (hasty \/ \E t \in Threads : job[t] = "created" /\ on[t] \in selected)
  /\ UNCHANGED <<vars, rows, status, lost, threads, closedBusy>>

\* Client::close sends CLOSE on a connection, whatever a thread does on it.
SendClose(c) ==
  /\ fate' = IF Talking(c) THEN "mixed" ELSE fate
  /\ closedBusy' = (closedBusy \/ \E t \in Threads : Unfinished(t) /\ on[t] = c)

CloseRows(where, sel) ==
  /\ window' = where /\ chosen' = sel /\ listing' = 0
  /\ SendClose(sel[1])
  /\ UNCHANGED <<vars, rows, status, lost, threads, hasty>>

\* The close button begins with the first of the selected rows.
CloseAction(selected) ==
  LET sel == Among(vsd, selected) IN
  AtMain /\ sel # <<>> /\ CloseRows("closing", sel)

\* The program's close button closes all rows and then the window.
Quit ==
  /\ AtMain
  /\ \/ vsd # <<>> /\ CloseRows("quitting", vsd)
     \/ /\ vsd = <<>> /\ window' = "gone"
        /\ UNCHANGED <<vars, rows, status, lost, dialog, threads, fate, conduct>>

\* Mutant of Erased: the loop steps over the row after an erased one.
ErasedSkips(s, set) ==
  LET stays(i) == s[i] \notin set \/ (i > 1 /\ s[i - 1] \in set)
  IN  [i \in 1..Cardinality({j \in DOMAIN s : stays(j)}) |->
         s[CHOOSE j \in DOMAIN s :
             stays(j) /\ Cardinality({k \in 1..j : stays(k)}) = i]]

\* The loop that erases closed rows.
Erased(s, set) == Among(s, Connections \ set)

\* The server answers CLOSE, or has ended the connection, and then
\* ServerData::close swallows the exception: the connection is deleted.  The
\* next one is closed then, and after the last one the rows are erased.
CloseEnds ==
  /\ fate = "fine" /\ window \in Closing
  /\ deleted' = deleted \cup {chosen[listing + 1]}
  /\ \/ /\ listing + 1 < Len(chosen)
        /\ listing' = listing + 1 /\ SendClose(chosen[listing' + 1])
        /\ UNCHANGED <<window, vsd, chosen>>
     \/ /\ listing + 1 = Len(chosen)
        /\ window' = IF window = "closing" THEN "main" ELSE "gone"
        /\ vsd' = Erased(vsd, Range(chosen)) /\ chosen' = <<>> /\ listing' = 0
        /\ UNCHANGED <<fate, closedBusy>>
  /\ UNCHANGED <<vars, status, lost, threads, hasty>>
-----------------------------------------------------------------------------
(* The list dialog.                                                         *)

LeaveList == window' = "main" /\ chosen' = <<>> /\ listing' = 0

\* OnInitDialog: the answer of the server whose turn it is; the next one is
\* asked then, and after the last one the dialog shows what all of them have,
\* or closes when there is no such command.
ListAnswer ==
  /\ fate = "fine" /\ window = "listing" /\ chosen[listing + 1] \notin lost
  /\ \/ /\ listing + 1 < Len(chosen)
        /\ listing' = listing + 1
        /\ fate' = IF Talking(chosen[listing' + 1]) THEN "mixed" ELSE fate
        /\ UNCHANGED <<window, chosen>>
     \/ /\ listing + 1 = Len(chosen)
        /\ window' = "list" /\ listing' = 0
        /\ UNCHANGED <<fate, chosen>>
     \/ /\ listing + 1 = Len(chosen)
        /\ LeaveList
        /\ UNCHANGED fate
  /\ UNCHANGED <<vars, rows, status, lost, threads, conduct>>

\* Client::list throws, and nothing catches it: the program ends.
ListThrows ==
  /\ fate = "fine" /\ window = "listing" /\ chosen[listing + 1] \in lost
  /\ fate' = "terminated"
  /\ UNCHANGED <<vars, window, rows, status, lost, dialog, threads, conduct>>

ListCancel ==
  /\ fate = "fine" /\ window = "list" /\ handlers = <<>>
  /\ LeaveList
  /\ UNCHANGED <<vars, rows, status, lost, threads, fate, conduct>>

\* The execute button, with a command selected: a thread for each server,
\* with the next ids.
tv == {t \in Threads : job[t] # "none"}
Created(t) == t - Cardinality(tv) + 1
ListExecute ==
  LET new == {t \in Threads : Created(t) \in DOMAIN chosen} IN
  /\ fate = "fine" /\ window = "list" /\ handlers = <<>>
  /\ Cardinality(new) = Len(chosen)
  /\ job' = [t \in Threads |-> IF t \in new THEN "created" ELSE job[t]]
  /\ on' = [t \in Threads |-> IF t \in new THEN chosen[Created(t)] ELSE on[t]]
  /\ LeaveList
  /\ UNCHANGED <<vars, rows, status, lost, fate, conduct>>
-----------------------------------------------------------------------------
(* The execute threads.                                                     *)
Running(t) == fate = "fine" /\ job[t] = "talking" /\ on[t] \notin deleted

\* execute begins: the status changes now, not when the thread is created.
Start(t) ==
  /\ fate = "fine" /\ job[t] = "created" /\ on[t] \notin deleted
  /\ job' = [job EXCEPT ![t] = "talking"]
  /\ status' = [status EXCEPT ![on[t]] = "Processing"]
  /\ fate' = IF Talking(on[t]) \/ Asked(on[t]) THEN "mixed" ELSE fate
  /\ UNCHANGED <<vars, window, rows, lost, dialog, on, conduct>>

\* The server asks for a parameter; the thread takes it when it is there.
AskAndTake(t) ==
  /\ Running(t) /\ (Need(t) \/ Take(t))
  /\ UNCHANGED <<window, rows, status, lost, dialog, threads, fate, conduct>>

Succeed(t) ==
  /\ Running(t) /\ Finish(t)
  /\ job' = [job EXCEPT ![t] = "ended"]
  /\ status' = [status EXCEPT ![on[t]] = "Idle"]
  /\ UNCHANGED <<window, rows, lost, dialog, on, fate, conduct>>

\* Mutant of Fail: a connection the server has ended is deleted at once.
FailDeletes(t) ==
  /\ Running(t) /\ pc[t] = "run"
  /\ pc' = [pc EXCEPT ![t] = "done"] /\ job' = [job EXCEPT ![t] = "ended"]
  /\ status' = [status EXCEPT ![on[t]] = "Exception"]
  /\ vsd' = Among(vsd, Connections \ {on[t]})
  /\ deleted' = deleted \cup {on[t]}
  /\ UNCHANGED <<got, events, handlers, depth, parameter, modified, forThread,
                 history, window, lost, dialog, on, fate, conduct>>

\* An exception in execute: of an answer NCERROR, after which the server
\* goes on, or of any other, after which it has ended the connection.
Fail(t) ==
  /\ Running(t) /\ pc[t] = "run"
  /\ pc' = [pc EXCEPT ![t] = "done"] /\ job' = [job EXCEPT ![t] = "ended"]
  /\ status' = [status EXCEPT ![on[t]] = "Exception"]
  /\ lost' \in {lost, lost \cup {on[t]}}
  /\ UNCHANGED <<got, events, handlers, depth, parameter, modified, forThread,
                 history, window, rows, dialog, on, fate, conduct>>

\* The thread begins, with a ServerData that was deleted before.  Where one
\* has begun already, the close button has mixed two conversations first.
UseDeleted(t) ==
  /\ fate = "fine" /\ job[t] = "created" /\ on[t] \in deleted
  /\ fate' = "deleted"
  /\ UNCHANGED <<vars, window, rows, status, lost, dialog, threads, conduct>>

\* The steps a thread is bound to take.  Where its server waits for the text
\* that was not sent, the connection may end, but nothing makes it end.
Work(t) ==
  \/ Start(t) \/ AskAndTake(t) \/ Succeed(t) \/ UseDeleted(t)
  \/ ~Unanswered(t) /\ Fail(t)
-----------------------------------------------------------------------------
(* The handler of a thread's event, in any of the event loops.              *)
Loops == {"main", "connect", "list"}

HandlerStep ==
  /\ fate = "fine" /\ window \in Loops
  /\ GuiStep
  /\ UNCHANGED <<window, rows, status, lost, dialog, threads, fate, conduct>>

Answers == ListAnswer \/ ListThrows \/ CloseEnds

UserActs ==
  \/ ConnectMenu \/ ConnectCancel \/ ConnectOk
  \/ \E sel \in SUBSET Connections : ListAction(sel) \/ CloseAction(sel)
  \/ ListCancel \/ ListExecute
  \/ Quit

WindowNext ==
  HandlerStep \/ Answers \/ UserActs \/ \E t \in Threads : Work(t) \/ Fail(t)

\* The threads run, servers answer, or their end of the connection does, and
\* the user answers the dialog for a parameter when it is in front.  An event
\* that is queued is dispatched although the user keeps going back to dialogs
\* in which no loop runs: each loop takes queued events before the user's.
\* Nothing obliges the user to anything else.
WindowSpec ==
  /\ WindowInit /\ [][WindowNext]_windowVars
  /\ SF_windowVars(HandlerStep) /\ WF_windowVars(Answers)
  /\ \A t \in Threads : WF_windowVars(Work(t))
-----------------------------------------------------------------------------
\* The types of the variables, those of ParamHandoff too; the rows and the
\* list dialog show connections that are there, each once; those closed so
\* far are erased from the rows when all are.
WindowTypeOK ==
  /\ TypeOK
  /\ window \in Loops \cup Asking \cup {"gone"}
  /\ vsd \in Seq(Connections) /\ IsInjective(vsd)
  /\ deleted \subseteq Connections
  /\ deleted \cap Range(vsd) =
       IF window \in Closing THEN {chosen[i] : i \in 1..listing} ELSE {}
  /\ status \in [Connections -> {"Idle", "Processing", "Exception"}]
  /\ lost \subseteq Connections
  /\ window \in {"list"} \cup Asking => Range(chosen) \subseteq Range(vsd)
  /\ listing \in 0..Len(chosen) /\ (window \in Asking => listing < Len(chosen))
  /\ job \in [Threads -> {"none", "created", "talking", "ended"}]
  /\ \A t \in Threads : on[t] \in Connections \/ job[t] = "none"
  /\ fate \in {"fine", "mixed", "deleted", "terminated"}
  /\ hasty \in BOOLEAN /\ closedBusy \in BOOLEAN

\* Two conversations never share a connection, whichever servers are listed
\* together and whatever runs on the others, but for two ways: the user asked
\* for the list of a server whose command was created and had not started yet
\* (the status keeps them apart, but execute sets it, not the list dialog), or
\* closed a connection whose command had not ended: the close buttons do not
\* look at the status.
ConversationsApart == fate = "mixed" => hasty \/ closedBusy

\* What a thread uses is there, unless the user closed a connection whose
\* command had not ended; the close buttons do not look.
NothingDeletedInUse == fate = "deleted" => closedBusy

\* A command that is created starts, gets its parameters, in whichever window
\* the user is, and ends, as long as no parameter dialog was opened over
\* another one, no connection was closed in use, and none of its own dialogs
\* was dismissed or left empty: then its server waits for a text for ever.
CommandsEnd ==
  \A t \in Threads :
    job[t] = "created" ~>
      job[t] = "ended" \/ Unanswered(t) \/ nested \/ closedBusy \/ fate # "fine"

\* The GUI never stays in a handler, in OnInitDialog or in a close button's.
GuiResponds ==
  At("enter") \/ window \in Asking
    ~> (~At("enter") /\ window \notin Asking) \/ nested \/ fate # "fine"
=============================================================================

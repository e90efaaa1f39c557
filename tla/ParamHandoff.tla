---------------------------- MODULE ParamHandoff ----------------------------
(***************************************************************************)
(* wxRCF asks for the parameters of commands.  Each command runs in an     *)
(* ExecuteThread; when the server asks it for a parameter it queues an     *)
(* event for the GUI thread and spins until mainWindow's shared parameter  *)
(* is meant for it.  The GUI's handler of the event shows a modal dialog,  *)
(* whose own event loop may dispatch the next event, so handlers nest.     *)
(* sharedParameterCS is a wxCriticalSection: its owner may enter it again. *)
(***************************************************************************)
EXTENDS Integers, Sequences, FiniteSets

CONSTANTS Threads,      \* execute threads (their threadId)
          Asks,         \* bound: how many parameters each of them needs
          Texts,        \* what may be typed into the dialog
          Blank,        \* the empty string
          NoThread      \* -1, no thread

ASSUME HandoffAssumption ==
  /\ Asks \in [Threads -> Nat] /\ Blank \notin Texts /\ NoThread \notin Threads

VARIABLES pc,           \* execute: "run" or "wait" for a parameter, "done"
          got,          \* parameters it has taken
          events,       \* queued wxThreadEvents
          handlers,     \* the GUI's nested handlers, innermost first
          depth,        \* entries of the GUI into sharedParameterCS
          parameter,    \* sharedParameter
          modified,     \* sharedParameterModified
          forThread,    \* sharedParameterForThreadId
          answered,     \* auxiliary: answers given in dialogs for each thread
          nested        \* auxiliary: a handler was called inside another one

history == <<answered, nested>>
vars == <<pc, got, events, handlers, depth, parameter, modified, forThread,
          history>>

Init ==
  /\ pc = [t \in Threads |-> "run"] /\ got = [t \in Threads |-> <<>>]
  /\ events = <<>> /\ handlers = <<>> /\ depth = 0
  /\ parameter = Blank /\ modified = FALSE /\ forThread = NoThread
  /\ answered = [t \in Threads |-> <<>>] /\ nested = FALSE
-----------------------------------------------------------------------------
(* The last text was empty: Client::write sends nothing for it, no end mark *)
(* either, so the server still waits for it and execute for the server.     *)
Unanswered(t) == got[t] # <<>> /\ got[t][Len(got[t])] = Blank

(* execute reads PARAM from its server: it queues the event and waits.      *)
Need(t) ==
  /\ pc[t] = "run" /\ ~Unanswered(t) /\ Len(got[t]) < Asks[t]
  /\ pc' = [pc EXCEPT ![t] = "wait"]
  /\ events' = Append(events, t)
  /\ UNCHANGED <<got, handlers, depth, parameter, modified, forThread, history>>

(* Mutant of Take: execute does not look whom the parameter is for.         *)
TakeAny(t) ==
  /\ pc[t] = "wait" /\ depth = 0 /\ modified
  /\ got' = [got EXCEPT ![t] = Append(@, parameter)]
  /\ pc' = [pc EXCEPT ![t] = "run"]
  /\ parameter' = Blank /\ modified' = FALSE /\ forThread' = NoThread
  /\ UNCHANGED <<events, handlers, depth, history>>

(* Mutant of Take: the shared flag is not cleared.                          *)
TakeAndLeave(t) ==
  /\ pc[t] = "wait" /\ depth = 0 /\ modified /\ forThread = t
  /\ got' = [got EXCEPT ![t] = Append(@, parameter)]
  /\ pc' = [pc EXCEPT ![t] = "run"]
  /\ UNCHANGED <<events, handlers, depth, parameter, modified, forThread, history>>

(* Inside the critical section, the iteration of its loop that succeeds.    *)
Take(t) ==
  /\ pc[t] = "wait" /\ depth = 0 /\ modified /\ forThread = t
  /\ got' = [got EXCEPT ![t] = Append(@, parameter)]
  /\ pc' = [pc EXCEPT ![t] = "run"]
  /\ parameter' = Blank /\ modified' = FALSE /\ forThread' = NoThread
  /\ UNCHANGED <<events, handlers, depth, history>>

(* The command has all its parameters and runs to its end.                  *)
Finish(t) ==
  /\ pc[t] = "run" /\ ~Unanswered(t) /\ Len(got[t]) = Asks[t]
  /\ pc' = [pc EXCEPT ![t] = "done"]
  /\ UNCHANGED <<got, events, handlers, depth, parameter, modified, forThread,
                 history>>
-----------------------------------------------------------------------------
(* The innermost handler: <<thread, "enter" or "dialog" or "closed">>.      *)
At(where) == handlers # <<>> /\ Head(handlers)[2] = where
Becomes(where) ==
  handlers' = <<[Head(handlers) EXCEPT ![2] = where]>> \o Tail(handlers)

(* The main event loop, or the one of an open dialog, dispatches an event.  *)
Dispatch ==
  /\ events # <<>> /\ (handlers = <<>> \/ At("dialog"))
  /\ handlers' = <<<<Head(events), "enter">>>> \o handlers
  /\ events' = Tail(events)
  /\ nested' = (nested \/ handlers # <<>>)
  /\ UNCHANGED <<pc, got, depth, parameter, modified, forThread, answered>>

(* The iteration of the handler's loop that keeps the critical section; as  *)
(* long as an earlier answer is not taken, its iterations change nothing.   *)
EnterSection ==
  /\ At("enter") /\ ~modified
  /\ depth' = depth + 1 /\ Becomes("dialog")
  /\ UNCHANGED <<pc, got, events, parameter, modified, forThread, history>>

(* The user presses Continue in the innermost dialog, which writes into     *)
(* sharedParameter, or closes it without, which leaves what is there.       *)
CloseDialog(p) ==
  /\ At("dialog")
  /\ parameter' = IF p = Blank THEN parameter ELSE p
  /\ answered' = [answered EXCEPT ![Head(handlers)[1]] = Append(@, p)]
  /\ Becomes("closed")
  /\ UNCHANGED <<pc, got, events, depth, modified, forThread, nested>>

(* Mutant of Return: the answer is not marked as given.                     *)
ReturnUnmarked ==
  /\ At("closed")
  /\ forThread' = Head(handlers)[1]
  /\ depth' = depth - 1 /\ handlers' = Tail(handlers)
  /\ UNCHANGED <<pc, got, events, parameter, modified, history>>

(* After ShowModal: the answer is marked and the section left.              *)
Return ==
  /\ At("closed")
  /\ modified' = TRUE /\ forThread' = Head(handlers)[1]
  /\ depth' = depth - 1 /\ handlers' = Tail(handlers)
  /\ UNCHANGED <<pc, got, events, parameter, history>>

GuiStep == Dispatch \/ EnterSection \/ Return
           \/ \E p \in Texts \cup {Blank} : CloseDialog(p)
ThreadStep(t) == Need(t) \/ Take(t) \/ Finish(t)

Next == GuiStep \/ \E t \in Threads : ThreadStep(t)

Spec == Init /\ [][Next]_vars
-----------------------------------------------------------------------------
(* The types of the variables; the GUI is in the critical section once per  *)
(* handler that shows its dialog or has not returned from it.               *)
TypeOK ==
  /\ pc \in [Threads -> {"run", "wait", "done"}]
  /\ \A t \in Threads : got[t] \in Seq(Texts \cup {Blank})
  /\ modified \in BOOLEAN /\ forThread \in Threads \cup {NoThread}
  /\ parameter \in Texts \cup {Blank}
  /\ depth = Cardinality({i \in DOMAIN handlers : handlers[i][2] # "enter"})

(* A thread goes on only with an answer from a dialog opened for it: it     *)
(* never takes one twice, nor one that was meant for another thread before  *)
(* its own was answered.                                                    *)
NoEarlyParameter ==
  \A t \in Threads : Len(got[t]) <= Len(answered[t])

(* A thread gets what was typed for it, in order: each dialog is titled     *)
(* "[server: user] Enter command parameter".                                *)
RightParameter ==
  \A t \in Threads : \A i \in 1..Len(got[t]) :
    i <= Len(answered[t]) /\ got[t][i] = answered[t][i]

(* As long as no dialog was opened over another one, this holds, with any   *)
(* number of threads that ask in turn.                                      *)
RightParameterInTurn == ~nested => RightParameter
=============================================================================

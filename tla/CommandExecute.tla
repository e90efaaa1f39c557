--------------------------- MODULE CommandExecute ---------------------------
(***************************************************************************)
(* Command::execute(output, error, params): getExec puts the parameters    *)
(* into the template, ExecuteImpl::execute runs what it returned.          *)
(*                                                                         *)
(* getExec works on what belongs to its thread alone, and commands that    *)
(* run know nothing of templates.  So it is enough to have one call of it, *)
(* any one, before the first command starts.                               *)
(***************************************************************************)
EXTENDS ExecPipes, ExecTemplate

Executing == [params |-> <<>>, numParams |-> -2]

ExecuteInit == Init /\ FillInit

GetExec == FillNext /\ UNCHANGED vars

\* The text goes to the shell and is of no further interest.  After an
\* exception there is none, and nothing is started.
HandOver ==
  /\ result.returned
  /\ ~result.threw
  /\ exec' = <<>>
  /\ call' = Executing
  /\ automaton' = Begin
  /\ result' = NoResult
  /\ UNCHANGED vars

Run == call = Executing /\ Next /\ UNCHANGED fillVars

ExecuteNext == GetExec \/ HandOver \/ Run

ExecuteSpec == ExecuteInit /\ [][ExecuteNext]_<<vars, fillVars>> /\ Fairness
=============================================================================

---------------------------- MODULE RemoteService ----------------------------
(***************************************************************************)
(* What RemoteControlFramework promises to the users of its clients,       *)
(* without protocol or server threads: a user logs in, asks for things one *)
(* at a time, and gets for each the result of one run of the command that  *)
(* was asked for, with the parameters that were given; or the session ends *)
(* and the command has run once or not at all.                             *)
(***************************************************************************)
EXTENDS Catalogue

CONSTANTS Sessions, Queries, Path, Params, Outputs, Codes

VARIABLES phase,    \* guest, ready, busy, gone
          who,      \* the user of each session
          asked,    \* the query asked for, None for a listing
          given,    \* the parameters given for it
          ran,      \* what was run for it
          answer    \* its result

vars == <<phase, who, asked, given, ran, answer>>

NoResult == [out |-> <<>>, err |-> <<>>, code |-> None]
NotBlank(line) == line # ""
Printed(output) == SelectSeq(output, NotBlank)
Meant(s) == Resolve(Path[asked[s]], who[s])

Init ==
  /\ phase = [s \in Sessions |-> "guest"] /\ who = [s \in Sessions |-> None]
  /\ asked = [s \in Sessions |-> None] /\ given = [s \in Sessions |-> <<>>]
  /\ ran = [s \in Sessions |-> None]
  /\ answer = [s \in Sessions |-> NoResult]

LogIn(s, u) ==
  /\ phase[s] = "guest"
  /\ phase' = [phase EXCEPT ![s] = "ready"]
  /\ who' = [who EXCEPT ![s] = u]
  /\ UNCHANGED <<asked, given, ran, answer>>

(* A new request.                                                           *)
Renew(s, q) ==
  /\ asked' = [asked EXCEPT ![s] = q]
  /\ given' = [given EXCEPT ![s] = <<>>]
  /\ ran' = [ran EXCEPT ![s] = None]

Ask(s, q) ==
  /\ phase[s] = "ready"
  /\ phase' = [phase EXCEPT ![s] = "busy"]
  /\ Renew(s, q)
  /\ answer' = [answer EXCEPT ![s] = NoResult]
  /\ UNCHANGED who

Give(s, p) ==
  /\ phase[s] = "busy" /\ asked[s] # None /\ Meant(s).answer = "RUN"
  /\ Len(given[s]) < NumParams[Meant(s).cmd]
  /\ given' = [given EXCEPT ![s] = Append(@, p)]
  /\ UNCHANGED <<phase, who, asked, ran, answer>>

(* The command runs, once, also when its user has left since.               *)
Run(s, o, code) ==
  /\ phase[s] \in {"busy", "gone"} /\ asked[s] # None /\ ran[s] = None
  /\ Meant(s).answer = "RUN"
  /\ Len(given[s]) = NumParams[Meant(s).cmd]
  /\ ran' = [ran EXCEPT ![s] =
       [cmd |-> Meant(s).cmd, params |-> given[s],
        out |-> Printed(o[1]), err |-> Printed(o[2]), code |-> code]]
  /\ UNCHANGED <<phase, who, asked, given, answer>>

Return(s) ==
  /\ phase[s] = "busy"
  /\ phase' = [phase EXCEPT ![s] = "ready"]
  /\ \/ asked[s] = None /\ UNCHANGED answer
     \/ /\ asked[s] # None /\ ran[s] = None /\ Meant(s).answer = "NCERROR"
        /\ UNCHANGED answer
     \/ /\ asked[s] # None /\ ran[s] # None
        /\ answer' = [answer EXCEPT ![s] =
             [out |-> ran[s].out, err |-> ran[s].err, code |-> ran[s].code]]
  /\ UNCHANGED <<who, asked, given, ran>>

(* The session ends, at any moment.  Who it was may be forgotten.           *)
Leave(s) ==
  /\ phase[s] # "gone"
  /\ phase' = [phase EXCEPT ![s] = "gone"]
  /\ answer' = [answer EXCEPT ![s] = NoResult]
  /\ who' \in {who, [who EXCEPT ![s] = None]}
  /\ UNCHANGED <<asked, given, ran>> \/ (phase[s] = "ready" /\ Renew(s, None))

End(s) == Return(s) \/ (phase[s] = "busy" /\ Leave(s))

Next ==
  \E s \in Sessions :
    \/ \E u \in Users : LogIn(s, u)
    \/ \E q \in Queries \cup {None} : Ask(s, q)
    \/ \E p \in Params : Give(s, p)
    \/ \E o \in Outputs, code \in Codes : Run(s, o, code)
    \/ Return(s)
    \/ Leave(s)

(* Every request ends.                                                      *)
Spec == Init /\ [][Next]_vars /\ \A s \in Sessions : WF_vars(End(s))
=============================================================================

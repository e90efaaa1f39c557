------------------------------ MODULE Iteration ------------------------------
(***************************************************************************)
(* What the users of a Group promise to whoever goes through them with     *)
(* getNextUser: they come in the order in which they were added, each once *)
(* until the iterator is reset, whatever is added and removed meanwhile.   *)
(* A user added late comes late, one removed in time does not come.        *)
(***************************************************************************)
EXTENDS SequencesExt

CONSTANTS People, Invalid

VARIABLES
  passed,   \* the users that have come
  ahead,    \* those to come
  reply     \* the answer to the last call, and whom it is about

vars == <<passed, ahead, reply>>

Members == Range(passed) \cup Range(ahead)

Init == passed = <<>> /\ ahead = <<>> /\ reply = <<"none">>

Add(u) ==
  /\ u \notin Members \cup Invalid
  /\ ahead' = Append(ahead, u)
  /\ reply' = <<"added", u>>
  /\ UNCHANGED passed

RefuseToAdd(u) ==
  /\ \/ u \in Members /\ reply' = <<"exists", u>>
     \/ u \in Invalid \ Members /\ reply' = <<"invalid", u>>
  /\ UNCHANGED <<passed, ahead>>

Drop(u) ==
  /\ u \in Members
  /\ passed' = RemoveFirst(passed, u)
  /\ ahead' = RemoveFirst(ahead, u)
  /\ reply' = <<"removed", u>>

FailToDrop(u) ==
  /\ u \notin Members
  /\ reply' = <<"not found", u>>
  /\ UNCHANGED <<passed, ahead>>

Come ==
  /\ ahead # <<>>
  /\ passed' = Append(passed, Head(ahead))
  /\ ahead' = Tail(ahead)
  /\ reply' = <<"user", Head(ahead)>>

Tell ==
  /\ reply' = IF ahead = <<>> THEN <<"end">> ELSE <<"more">>
  /\ UNCHANGED <<passed, ahead>>

Restart ==
  /\ passed' = <<>> /\ ahead' = passed \o ahead
  /\ reply' = <<"none">>

\* The object is destroyed.
Vanish == passed' = <<>> /\ ahead' = <<>> /\ reply' = <<"none">>

Next ==
  \/ \E u \in People : Add(u) \/ RefuseToAdd(u) \/ Drop(u) \/ FailToDrop(u)
  \/ Come \/ Tell \/ Restart \/ Vanish

Spec == Init /\ [][Next]_vars
=============================================================================

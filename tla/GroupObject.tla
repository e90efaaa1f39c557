----------------------------- MODULE GroupObject -----------------------------
(***************************************************************************)
(* A Group as an object: its array of users and the iterator stored in it, *)
(* which addUser and removeUser leave in the middle of the array.          *)
(*                                                                         *)
(* _usersEnd is left out: usersAtEnd computes it again before it returns   *)
(* it, and nothing else reads it.                                          *)
(***************************************************************************)
EXTENDS Integers, SequencesExt

CONSTANTS
  People,    \* users of whom a program has an object
  Invalid    \* those of them that are not valid()

ASSUME GroupObjectAssumption == Invalid \subseteq People

VARIABLES
  users,      \* _users
  iterator,   \* _usersIterator
  reply       \* what the last call has returned or thrown, and whom it is about

groupVars == <<users, iterator, reply>>

GroupInit ==
  /\ users = <<>>
  /\ iterator = -1
  /\ reply = <<"none">>

AddUser(u) ==
  /\ \/ /\ Contains(users, u)
        /\ reply' = <<"exists", u>>
        /\ UNCHANGED users
     \/ /\ ~Contains(users, u) /\ u \in Invalid
        /\ reply' = <<"invalid", u>>
        /\ UNCHANGED users
     \/ /\ ~Contains(users, u) /\ u \notin Invalid
        /\ users' = Append(users, u)
        /\ reply' = <<"added", u>>
  /\ UNCHANGED iterator

\* Mutant of After: the user the iterator stands at is not counted.
AfterBehind(torem) == IF iterator > torem THEN iterator - 1 ELSE iterator

\* The iterator when the user at torem has been removed.
After(torem) == IF iterator >= torem THEN iterator - 1 ELSE iterator

RemoveUser(u) ==
  \/ LET torem == SelectInSeq(users, LAMBDA v : v = u) - 1
     IN /\ torem >= 0
        /\ users' = RemoveAt(users, torem + 1)
        /\ iterator' = After(torem)
        /\ reply' = <<"removed", u>>
  \/ /\ ~Contains(users, u)
     /\ reply' = <<"not found", u>>
     /\ UNCHANGED <<users, iterator>>

GetNextUser ==
  /\ \/ /\ iterator < Len(users) - 1
        /\ iterator' = iterator + 1
        /\ reply' = <<"user", users[iterator + 2]>>
     \/ /\ iterator >= Len(users) - 1
        /\ reply' = <<"end">>
        /\ UNCHANGED iterator
  /\ UNCHANGED users

UsersAtEnd ==
  /\ reply' = IF users = <<>> \/ iterator >= Len(users) - 1 THEN <<"end">>
                                                           ELSE <<"more">>
  /\ UNCHANGED <<users, iterator>>

\* A copy of a group starts like this, too.
ResetUsersIterator ==
  /\ iterator' = -1
  /\ reply' = <<"none">>
  /\ UNCHANGED users

Free == users' = <<>> /\ iterator' = -1 /\ reply' = <<"none">>

Use ==
  \/ \E u \in People : AddUser(u) \/ RemoveUser(u)
  \/ GetNextUser \/ UsersAtEnd \/ ResetUsersIterator
-----------------------------------------------------------------------------
\* A program that goes through the users of a group while it adds and removes
\* some gets each of them once, and is told the end when there is none left:
\* the iterator stays where it is in the list, not in the array.
I == INSTANCE Iteration WITH
       passed <- IF iterator < Len(users) THEN SubSeq(users, 1, iterator + 1) ELSE users,
       ahead <- SubSeq(users, iterator + 2, Len(users))

ImplementsIteration == I!Spec
=============================================================================

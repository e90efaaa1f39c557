----------------------------- MODULE Catalogue -----------------------------
(***************************************************************************)
(* The configuration of a running RCF server: its users and user groups    *)
(* (_perms), its commands and command groups (_commands and _groups, a     *)
(* forest), who may run what, and how a query is resolved.  The server     *)
(* never changes it once Server::Server has loaded it, so it is constant.  *)
(***************************************************************************)
EXTENDS Naturals, Sequences

CONSTANTS Users,          \* users with a loaded .rcfuser file
          UserGroups,     \* groups of users
          Commands,       \* Command objects
          CommandGroups,  \* CommandGroup objects
          NameOf,         \* name of each command and command group
          TopCommands,    \* Server::_commands, in order
          TopGroups,      \* Server::_groups, in order
          CommandsIn,     \* CommandGroup::_commands of each group, in order
          GroupsIn,       \* CommandGroup::_groups of each group, in order
          CommandPerms,   \* Command::_perms: users and user groups
          Members,        \* Group::_users of each user group
          NumParams,      \* Command::_numParams
          PasswordOf,     \* the password of each user
          None            \* NULL, and "no value yet" elsewhere

ASSUME CatalogueAssumption ==
  /\ TopCommands \in Seq(Commands) /\ TopGroups \in Seq(CommandGroups)
  /\ CommandsIn \in [CommandGroups -> Seq(Commands)]
  /\ GroupsIn \in [CommandGroups -> Seq(CommandGroups)]
  /\ CommandPerms \in [Commands -> SUBSET (Users \cup UserGroups)]
  /\ Members \in [UserGroups -> SUBSET Users]
  /\ NumParams \in [Commands -> Nat]
  /\ None \notin Users \cup Commands \cup CommandGroups

(* Command::canExecute: the user is among the permissions, or in one of     *)
(* the groups among them.                                                   *)
CanExecute(c, u) ==
  \E p \in CommandPerms[c] : p = u \/ (p \in UserGroups /\ u \in Members[p])

(* The first object with a name, as a set of one or none: the loops over    *)
(* _commands and _groups, hasCommand with getCommandByName, hasGroup with   *)
(* getGroupByName.                                                          *)
Named(objects, i, name) == NameOf[objects[i]] = name
First(objects, name) ==
  {objects[i] : i \in {j \in DOMAIN objects :
     Named(objects, j, name) /\ \A k \in 1..(j - 1) : ~Named(objects, k, name)}}

(* The values of curgrp along a path: the groups that all its components    *)
(* but the last lead through, if there are such groups.                     *)
Ways(path) ==
  {way \in [1..(Len(path) - 1) -> CommandGroups] :
     \A i \in DOMAIN way :
       way[i] \in First(IF i = 1 THEN TopGroups ELSE GroupsIn[way[i - 1]], path[i])}

(* The command a path leads to, if there is one.                            *)
Target(path) ==
  UNION {First(IF Len(path) = 1 THEN TopCommands ELSE CommandsIn[way[Len(path) - 1]],
               path[Len(path)]) : way \in Ways(path)}

(* What handleExecute does with the query: the command it runs, or the head *)
(* of the message it answers with.  Only an unknown first group gets ERROR. *)
Resolve(path, u) ==
  LET allowed == {c \in Target(path) : CanExecute(c, u)} IN
  IF Len(path) > 1 /\ First(TopGroups, path[1]) = {}
  THEN [answer |-> "ERROR", cmd |-> None]
  ELSE IF allowed = {} THEN [answer |-> "NCERROR", cmd |-> None]
  ELSE [answer |-> "RUN", cmd |-> CHOOSE c \in allowed : TRUE]
=============================================================================

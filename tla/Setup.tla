-------------------------------- MODULE Setup --------------------------------
(***************************************************************************)
(* The configuration from the making of a file to the start of the server: *)
(* a program makes an object and saves it, as srcftool, crcftool and the   *)
(* library's tests do, and may be killed meanwhile; then the server starts *)
(* on what is on the disk.                                                 *)
(*                                                                         *)
(* A user group is put together with the operations of Group first.  All   *)
(* other objects are saved as the configuration has them.                  *)
(***************************************************************************)
EXTENDS Startup, ConfigFile, GroupObject

CONSTANT Changing   \* the configurations one file of which is being made

\* What a file can say of an object that it names.
IsReference(x) == x = [type |-> x.type, name |-> x.name]

ASSUME SetupAssumption ==
  /\ Changing \subseteq Configurations
  /\ \A c \in Changing :
       /\ c.invalid = {} /\ c.unreadable = {}
       /\ \A x \in Files(c) : \A y \in Range(Names(c, x)) : IsReference(y)
  /\ \A p \in People : p = User(p.name)

setupVars == <<vars, saveVars, groupVars>>

Object(c, x) == [type |-> x.type, name |-> x.name, names |-> Names(c, x)]
Definition == [type |-> "serverdefinition", name |-> "home", names |-> <<>>]

SetupInit ==
  /\ files \in Configurations
  /\ phase = "setup" /\ unread = {}
  /\ NothingLoaded
  /\ GroupInit
  /\ disk = <<>>
  /\ \/ /\ files \in Changing
        /\ saving \in {Object(files, x) : x \in Files(files)}
                        \cup {Definition}
        /\ tool = IF saving.type = "group" THEN "editing" ELSE "started"
     \/ /\ files \notin Changing
        /\ saving = Definition
        /\ tool = "none"
  /\ object = Fresh(saving.type)

Edit ==
  /\ tool = "editing"
  /\ Use
  /\ UNCHANGED <<vars, saveVars>>

\* save is called, and the group is not used any more.
SaveGroup ==
  /\ tool = "editing"
  /\ saving' = [saving EXCEPT !.names = users]
  /\ tool' = "started"
  /\ Free
  /\ UNCHANGED <<vars, disk, object>>

SaveAndLoad == (SaveStep \/ LoadStep) /\ UNCHANGED <<vars, groupVars>>

\* What the directories hold when an object has been saved, or half of it.
With(c, x, names) ==
  CASE x.type = "group" -> [c EXCEPT !.userGroups[x.name] = names]
    [] x.type = "command" -> [c EXCEPT !.commands[x.name] = names]
    [] x.type = "commandgroup" -> [c EXCEPT !.commandGroups[x.name] = names]
    [] OTHER -> c

Directories ==
  LET x == [type |-> saving.type, name |-> saving.name]
  IN IF tool = "none" \/ saving = Definition THEN files
     ELSE [With(files, x, object.names) EXCEPT
             !.invalid = IF Valid(saving.type, object) THEN {} ELSE {x},
             !.unnamed = IF Named(object) THEN {} ELSE {x}]

StartServer ==
  /\ phase = "setup"
  /\ tool \in {"none", "loaded"}
  /\ files' = Directories
  /\ phase' = "perms"
  /\ unread' = PermFiles(files')
  /\ saving' = Definition /\ disk' = <<>> /\ tool' = "none"
  /\ object' = Fresh("serverdefinition")
  /\ UNCHANGED <<perms, commands, groups, cache, stack, at, groupVars>>

Construct == Next /\ UNCHANGED <<saveVars, groupVars>>

SetupNext == Edit \/ SaveGroup \/ SaveAndLoad \/ StartServer \/ Construct

\* Whoever edits a group saves it in the end, the tool writes on until it is
\* killed, and somebody starts the server.
SetupSpec ==
  /\ SetupInit /\ [][SetupNext]_setupVars
  /\ WF_setupVars(SaveGroup) /\ WF_setupVars(SaveAndLoad)
  /\ WF_setupVars(StartServer) /\ WF_setupVars(Construct)

SetupTypeOK ==
  /\ phase # "setup" => TypeOK
  /\ saving.type \in DOMAIN Class
  /\ tool \in {"none", "editing", "started", "writing", "saved", "killed", "refused",
              "loading", "loaded"}
  /\ Range(disk) \subseteq Range(Lines(saving.type, saving.names))
  /\ Range(users) \subseteq People \ Invalid
  /\ iterator \in -1..(Len(users) - 1)
=============================================================================

------------------------------ MODULE Startup ------------------------------
(***************************************************************************)
(* The start of the server: Server::Server reads the directories of        *)
(* permissions and commands, loads what it finds with User::load,          *)
(* Group::load, Command::load and CommandGroup::load, and removes from the *)
(* top level what turned out to belong to a group.                         *)
(*                                                                         *)
(* One thread does all this; what varies is the order in which the file    *)
(* system lists a directory.  Files are as save writes them, or begins to  *)
(* write them (ConfigFile): a file holds an object of its own name or of   *)
(* none, and names an object once.  What a file says of the object besides *)
(* its name is left out, but for whether the object is valid.  A file may  *)
(* name others that do not exist.                                          *)
(*                                                                         *)
(* No load looks whether its file could be opened: it reads until the end  *)
(* of the file, which never comes for one that cannot be read.             *)
(*                                                                         *)
(* CommandGroup::load calls itself: its calls are a stack.  Each of them   *)
(* keeps its file open.                                                    *)
(***************************************************************************)
EXTENDS Integers, FiniteSets, SequencesExt

CONSTANTS
  Configurations,  \* what may be in the directories
  MaxDepth         \* how many calls of CommandGroup::load inside each other
                   \* the stack and the table of open files hold

User(n) == [type |-> "user", name |-> n]
Group(n) == [type |-> "group", name |-> n]
Command(n) == [type |-> "command", name |-> n]
CommandGroup(n) == [type |-> "commandgroup", name |-> n]

VARIABLES
  files,     \* the configuration found
  phase,     \* how far the constructor is, or how it has ended
  unread,    \* the entries of the directory that are still to come
  perms,     \* _perms
  commands,  \* _commands
  groups,    \* _groups
  cache,     \* _loadedPermissions, _loadedCommands and _loadedGroups
  stack,     \* the calls of CommandGroup::load
  at         \* i in the last two loops

vars == <<files, phase, unread, perms, commands, groups, cache, stack, at>>

\* "looping" is the loop over a file that cannot be read.
Ends == {"ready", "failed", "crashed"}

PermFiles(c) == {User(n) : n \in c.users} \cup {Group(n) : n \in DOMAIN c.userGroups}
CommandFiles(c) ==
  {Command(n) : n \in DOMAIN c.commands}
    \cup {CommandGroup(n) : n \in DOMAIN c.commandGroups}
Files(c) == PermFiles(c) \cup CommandFiles(c)
Exists(x) == x \in Files(files)

\* What the file of an object names, in order.
Names(c, x) ==
  CASE x.type = "user" -> <<>>
    [] x.type = "group" -> c.userGroups[x.name]
    [] x.type = "command" -> c.commands[x.name]
    [] x.type = "commandgroup" -> c.commandGroups[x.name]

\* What the sections of its file can name.
NamedIn == [user |-> {}, group |-> {"user"}, command |-> {"user", "group"},
            commandgroup |-> {"command", "commandgroup"}]

\* A configuration has the names of users; the users of each group; the
\* permissions each command names; the commands and groups each command
\* group names; the objects that are not valid(), and those of them that have
\* no name, which is all that a command group needs; and the files that cannot
\* be read.  The stack is deep enough for groups that are not inside each other.
WellFormed(c) ==
  /\ DOMAIN c = {"users", "userGroups", "commands", "commandGroups", "invalid", "unnamed",
                 "unreadable"}
  /\ \A x \in Files(c) :
       /\ Names(c, x) \in Seq(Range(Names(c, x)))
       /\ \A y \in Range(Names(c, x)) : y.type \in NamedIn[x.type]
  /\ IsFiniteSet(DOMAIN c.commandGroups)
  /\ Cardinality(DOMAIN c.commandGroups) <= MaxDepth
  /\ c.unnamed \subseteq c.invalid
  /\ \A x \in c.invalid : x.type = "commandgroup" => x \in c.unnamed
  /\ c.unreadable \subseteq Files(c)

ASSUME StartupAssumption ==
  /\ MaxDepth \in Nat \ {0}
  /\ \A c \in Configurations :
       /\ WellFormed(c)
       /\ \A g \in DOMAIN c.commandGroups : IsInjective(c.commandGroups[g])

NothingLoaded ==
  /\ perms = <<>> /\ commands = <<>> /\ groups = <<>>
  /\ cache = <<>> /\ stack = <<>>
  /\ at = 1

Init ==
  /\ files \in Configurations
  /\ phase = "perms"
  /\ unread = PermFiles(files)
  /\ NothingLoaded

\* A cache finds an object by its name, which is missing if its file ends
\* before it.
HasName(x) == x \notin files.unnamed
Found(c, x) == HasName(x) /\ Contains(c, x)

(***************************************************************************)
(* User::load, Group::load and Command::load: whether all files are there, *)
(* and what the caches hold afterwards.  An object enters its cache after  *)
(* those it names, and is looked up there first.                           *)
(***************************************************************************)
\* Mutant of Loadable: files that are named are not looked for.
LoadableItself(x) == Exists(x)

\* addUser and addPermission throw when the object is not valid.
CanBeAdded(x) == Exists(x) /\ x \notin files.invalid

Readable(x) == x \notin files.unreadable

Loadable(x) ==
  /\ Exists(x) /\ Readable(x)
  /\ \A p \in Range(Names(files, x)) :
       /\ CanBeAdded(p) /\ Readable(p)
       /\ \A u \in Range(Names(files, p)) : CanBeAdded(u) /\ Readable(u)

\* The load of an object never returns: of a permission, when its file or one
\* that it names cannot be read and nothing named before that one throws, and
\* of a command.
AddedUpTo(names, i) == \A j \in 1..(i - 1) : CanBeAdded(names[j])

PermHangs(p) ==
  /\ Exists(p)
  /\ \/ ~Readable(p)
     \/ LET users == Names(files, p)
        IN \E i \in DOMAIN users : ~Readable(users[i]) /\ AddedUpTo(users, i)

Hangs(x) ==
  /\ Exists(x)
  /\ \/ ~Readable(x)
     \/ LET all == Names(files, x)
        IN \E i \in DOMAIN all :
             /\ PermHangs(all[i]) /\ AddedUpTo(all, i)
             /\ \A j \in 1..(i - 1) :
                  \A u \in Range(Names(files, all[j])) : CanBeAdded(u)

\* How the constructor stops where an object cannot be loaded.
Stopped(x) == IF Hangs(x) THEN "looping" ELSE "failed"

\* Mutant of Cached: the cache is not looked into.
CachedAgain(c, x) == Append(c, x)

Cached(c, x) == IF Found(c, x) THEN c ELSE Append(c, x)

CachedAll(c, xs) ==
  LET after[n \in 0..Len(xs)] == IF n = 0 THEN c ELSE Cached(after[n - 1], xs[n])
  IN  after[Len(xs)]

LoadPerm(c, p) == Cached(CachedAll(c, Names(files, p)), p)
LoadAll(c, xs) ==
  LET after[n \in 0..Len(xs)] == IF n = 0 THEN c ELSE LoadPerm(after[n - 1], xs[n])
  IN  after[Len(xs)]

Load(c, x) ==
  IF Found(c, x) THEN c ELSE Cached(LoadAll(c, Names(files, x)), x)

(***************************************************************************)
(* recursiveHasCommand and recursiveHasGroup: what is in a command group   *)
(* or in one below.  They descend into groups that have been loaded, which *)
(* do not contain themselves.                                              *)
(***************************************************************************)
Inside(c, g) ==
  LET groupsOf == Cardinality(DOMAIN c.commandGroups)
      below[n \in 0..groupsOf] ==
        IF n = 0 THEN Range(Names(c, g))
        ELSE LET known == below[n - 1]
             IN known \cup UNION {Range(Names(c, h)) :
                                  h \in known \cap CommandFiles(c)}
  IN below[groupsOf]

RecursiveHas(g, x) == x \in Inside(files, g)

(***************************************************************************)
(* The constructor.                                                        *)
(***************************************************************************)

\* Mutant of Skipped: what a group has loaded counts as being there.
SkippedIfLoaded(e) == \E i \in DOMAIN cache : cache[i].name = e.name

\* A file of the permissions' directory is skipped if a user or a group of
\* its name is there already.
Skipped(e) == \E i \in DOMAIN perms : perms[i].name = e.name /\ HasName(perms[i])

\* Mutant of ReadPerm: the iterator is not moved for a file that is skipped.
ReadPermStuck(e) ==
  /\ phase = "perms"
  /\ e \in unread
  /\ unread' = IF Skipped(e) THEN unread ELSE unread \ {e}
  /\ \/ /\ Skipped(e)
        /\ UNCHANGED <<phase, perms, cache>>
     \/ /\ ~Skipped(e) /\ Loadable(e)
        /\ perms' = Append(perms, e)
        /\ cache' = Load(cache, e)
        /\ UNCHANGED phase
     \/ /\ ~Skipped(e) /\ ~Loadable(e)
        /\ phase' = Stopped(e)
        /\ UNCHANGED <<perms, cache>>
  /\ UNCHANGED <<files, commands, groups, stack, at>>

ReadPerm(e) ==
  /\ phase = "perms"
  /\ e \in unread
  /\ unread' = unread \ {e}
  /\ \/ /\ Skipped(e)
        /\ UNCHANGED <<phase, perms, cache>>
     \/ /\ ~Skipped(e) /\ Loadable(e)
        /\ perms' = Append(perms, e)
        /\ cache' = Load(cache, e)
        /\ UNCHANGED phase
     \/ /\ ~Skipped(e) /\ ~Loadable(e)
        /\ phase' = Stopped(e)
        /\ UNCHANGED <<perms, cache>>
  /\ UNCHANGED <<files, commands, groups, stack, at>>

PermsRead ==
  /\ phase = "perms"
  /\ unread = {}
  /\ phase' = "commands"
  /\ unread' = CommandFiles(files)
  /\ UNCHANGED <<files, perms, commands, groups, cache, stack, at>>

InSomeGroup(x) == \E i \in DOMAIN groups : RecursiveHas(groups[i], x)

\* A command is loaded unless a group that is there has it.
ReadCommand(e) ==
  /\ phase = "commands" /\ stack = <<>>
  /\ e \in unread /\ e.type = "command"
  /\ unread' = unread \ {e}
  /\ \/ /\ InSomeGroup(e)
        /\ UNCHANGED <<phase, commands, cache>>
     \/ /\ ~InSomeGroup(e) /\ Loadable(e)
        /\ commands' = Append(commands, e)
        /\ cache' = Load(cache, e)
        /\ UNCHANGED phase
     \/ /\ ~InSomeGroup(e) /\ ~Loadable(e)
        /\ phase' = Stopped(e)
        /\ UNCHANGED <<commands, cache>>
  /\ UNCHANGED <<files, perms, groups, stack, at>>

\* A call of CommandGroup::load for a group that is not in the cache: it
\* goes through the file line by line.
Call(g) == [group |-> g, line |-> 1]

\* A command group is loaded unless another one has it.
ReadGroup(e) ==
  /\ phase = "commands" /\ stack = <<>>
  /\ e \in unread /\ e.type = "commandgroup"
  /\ unread' = unread \ {e}
  /\ \/ /\ InSomeGroup(e)
        /\ UNCHANGED <<phase, groups, stack>>
     \/ /\ ~InSomeGroup(e) /\ Found(cache, e)
        /\ groups' = Append(groups, e)
        /\ UNCHANGED <<phase, stack>>
     \/ /\ ~InSomeGroup(e) /\ ~Found(cache, e)
        /\ IF Readable(e) THEN stack' = <<Call(e)>> /\ UNCHANGED phase
                          ELSE phase' = "looping" /\ UNCHANGED stack
        /\ UNCHANGED groups
  /\ UNCHANGED <<files, perms, commands, cache, at>>

Top == stack[Len(stack)]
Contents == Names(files, Top.group)
Line == Contents[Top.line]
Moved == [stack EXCEPT ![Len(stack)].line = @ + 1]

\* A line names a command, or a group that is in the cache.
LoadLine ==
  /\ phase = "commands" /\ stack # <<>> /\ Top.line <= Len(Contents)
  /\ \/ Line.type = "command" /\ Loadable(Line) /\ CanBeAdded(Line)
     \/ Line.type = "commandgroup" /\ Found(cache, Line)
  /\ cache' = IF Line.type = "command" THEN Load(cache, Line) ELSE cache
  /\ stack' = Moved
  /\ UNCHANGED <<files, phase, unread, perms, commands, groups, at>>

\* A line names a group that has to be loaded first.  When there are too many
\* calls inside each other, either the stack is full, or no file can be opened
\* any more and the last call loops.
LoadNested ==
  /\ phase = "commands" /\ stack # <<>> /\ Top.line <= Len(Contents)
  /\ Line.type = "commandgroup" /\ Exists(Line) /\ ~Found(cache, Line)
  /\ IF Readable(Line) /\ Len(stack) < MaxDepth
     THEN stack' = Append(Moved, Call(Line)) /\ UNCHANGED phase
     ELSE /\ phase' \in IF Readable(Line) THEN {"crashed", "looping"} ELSE {"looping"}
          /\ UNCHANGED stack
  /\ UNCHANGED <<files, unread, perms, commands, groups, cache, at>>

\* Mutant of LoadMissing: the exception is swallowed and the line skipped.
LoadMissingSkips ==
  /\ phase = "commands" /\ stack # <<>> /\ Top.line <= Len(Contents)
  /\ IF Line.type = "command" THEN ~(Loadable(Line) /\ CanBeAdded(Line)) ELSE ~Exists(Line)
  /\ stack' = Moved
  /\ UNCHANGED <<files, phase, unread, perms, commands, groups, cache, at>>

\* A line names what is not there, or a command that is not valid: the
\* exception leaves the constructor.  Or the load of the command hangs.
LoadMissing ==
  /\ phase = "commands" /\ stack # <<>> /\ Top.line <= Len(Contents)
  /\ IF Line.type = "command" THEN ~(Loadable(Line) /\ CanBeAdded(Line)) ELSE ~Exists(Line)
  /\ phase' = IF Line.type = "command" THEN Stopped(Line) ELSE "failed"
  /\ UNCHANGED <<files, unread, perms, commands, groups, cache, stack, at>>

\* CommandGroup::load puts the group into the cache and returns it, to
\* another call, where addGroup throws when it is not valid, or to the
\* constructor.
LoadReturns ==
  /\ phase = "commands" /\ stack # <<>> /\ Top.line > Len(Contents)
  /\ cache' = Append(cache, Top.group)
  /\ stack' = Front(stack)
  /\ groups' = IF Len(stack) = 1 THEN Append(groups, Top.group) ELSE groups
  /\ phase' = IF Len(stack) > 1 /\ ~CanBeAdded(Top.group) THEN "failed" ELSE phase
  /\ UNCHANGED <<files, unread, perms, commands, at>>

CommandsRead ==
  /\ phase = "commands" /\ stack = <<>> /\ unread = {}
  /\ phase' = "prune groups"
  /\ at' = 1
  /\ UNCHANGED <<files, unread, perms, commands, groups, cache, stack>>

\* Mutant of AfterErase: i is not set back.
AfterEraseSkips == at + 1

\* i for the next iteration when the i-th object has been erased.
AfterErase == at

\* A group that is also inside another one is taken off the top level.
PruneGroup ==
  /\ phase = "prune groups" /\ at <= Len(groups)
  /\ IF \E j \in DOMAIN groups \ {at} : RecursiveHas(groups[j], groups[at])
     THEN groups' = RemoveAt(groups, at) /\ at' = AfterErase
     ELSE groups' = groups /\ at' = at + 1
  /\ UNCHANGED <<files, phase, unread, perms, commands, cache, stack>>

GroupsPruned ==
  /\ phase = "prune groups" /\ at > Len(groups)
  /\ phase' = "prune commands"
  /\ at' = 1
  /\ UNCHANGED <<files, unread, perms, commands, groups, cache, stack>>

\* And so is a command.
PruneCommand ==
  /\ phase = "prune commands" /\ at <= Len(commands)
  /\ IF InSomeGroup(commands[at])
     THEN commands' = RemoveAt(commands, at) /\ at' = AfterErase
     ELSE commands' = commands /\ at' = at + 1
  /\ UNCHANGED <<files, phase, unread, perms, groups, cache, stack>>

CommandsPruned ==
  /\ phase = "prune commands" /\ at > Len(commands)
  /\ phase' = "ready"
  /\ UNCHANGED <<files, unread, perms, commands, groups, cache, stack, at>>

Next ==
  \/ \E e \in unread : ReadPerm(e)
  \/ PermsRead
  \/ \E e \in unread : ReadCommand(e)
  \/ \E e \in unread : ReadGroup(e)
  \/ LoadLine \/ LoadNested \/ LoadMissing \/ LoadReturns
  \/ CommandsRead
  \/ PruneGroup \/ GroupsPruned
  \/ PruneCommand \/ CommandsPruned

\* The constructor runs.
Spec == Init /\ [][Next]_vars /\ WF_vars(Next)

(***************************************************************************)
(* Properties.                                                             *)
(***************************************************************************)
TypeOK ==
  /\ DOMAIN files = DOMAIN (CHOOSE c \in Configurations : TRUE)
  /\ phase \in {"perms", "commands", "prune groups", "prune commands"} \cup Ends \cup {"looping"}
  /\ unread \subseteq Files(files)
  /\ Range(perms) \subseteq PermFiles(files)
  /\ Range(commands) \cup Range(groups) \subseteq CommandFiles(files)
  /\ Range(cache) \subseteq Files(files)
  /\ \A i \in DOMAIN stack :
       /\ stack[i].group \in CommandFiles(files)
       /\ stack[i].line \in 1..(Len(Names(files, stack[i].group)) + 1)
  /\ Len(stack) <= MaxDepth
  /\ at \in Nat

References == [x \in Files(files) |-> Range(Names(files, x))]

Incomplete(x) == \E y \in References[x] : ~CanBeAdded(y)
Dangling == \E x \in DOMAIN References : Incomplete(x)
Cyclic == \E g \in CommandFiles(files) : g.type = "commandgroup" /\ RecursiveHas(g, g)

\* A user group that a user of its name can hide, and that no command names.
CanBeHidden(x) ==
  /\ x.type = "group" /\ User(x.name) \in Files(files)
  /\ \A c \in CommandFiles(files) : x \notin References[c]

\* Of a user and a group with the same name only one is read.
HasNamesake(p) ==
  p \in PermFiles(files) /\ \E q \in PermFiles(files) : q.name = p.name /\ q.type # p.type

\* The server starts exactly with those configurations in which every name
\* has its file, with all that makes the object valid, every file can be read
\* and no command group is inside itself, in whichever order the directories
\* are listed.  What nobody may look for is the file of a hidden user or group,
\* and what a hidden group names.
Verdict ==
  /\ phase = "ready" =>
       /\ ~Cyclic /\ \A x \in DOMAIN References : Incomplete(x) => CanBeHidden(x)
       /\ \A x \in files.unreadable : HasNamesake(x)
  /\ phase = "failed" => Dangling
  /\ phase = "crashed" => Cyclic
  /\ phase = "looping" => Cyclic \/ files.unreadable # {}

\* What is where in the catalogue does not depend on the order of the
\* directory: every command and every command group is at the top level once
\* if no group has it, and not at all if one does.
TopLevel ==
  phase = "ready" =>
    /\ IsInjective(commands) /\ IsInjective(groups)
    /\ Range(commands) \cup Range(groups) =
         {x \in CommandFiles(files) :
            \A g \in CommandFiles(files) : x \notin References[g]}

\* There is one object for a file, although it may be named in several files
\* and stand in the directory as well: threads and groups share it.  Only
\* what has no name is loaded again, and then the server does not start.
LoadedOnce == phase # "failed" => IsInjective(cache)

\* Every user and group is known to the server once, unless a user and a
\* group have the same name: then it knows one of them, the one that the
\* directory lists first, and if it is the group the user cannot log in.
EveryoneKnown ==
  phase = "ready" =>
    /\ IsInjective(perms)
    /\ \A p \in PermFiles(files) :
         \/ p \in Range(perms)
         \/ \E q \in Range(perms) : q.name = p.name /\ q.type # p.type
    /\ \A p \in PermFiles(files) :
         (\A q \in PermFiles(files) : q.name = p.name => q = p) => p \in Range(perms)

\* The server starts or reports why it does not, unless command groups are
\* inside each other or a file cannot be read: with those nothing is promised.
StartupEnds ==
  <>(\/ phase \in {"ready", "failed"}
     \/ phase # "setup" /\ (Cyclic \/ files.unreadable # {}))
=============================================================================

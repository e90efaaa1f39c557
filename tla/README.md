# RemoteControlFramework in TLA+

RemoteControlFramework (RCF) lets users run commands on a remote machine: a
server with a catalogue of commands, arranged in groups and guarded by
permissions, and two clients, one for the command line and one with a wxWidgets
window. Client and server talk over TLS in short texts. This directory models
the protocol, the transmission under it, the files of the configuration, the
start of the server on them, the walk over its catalogue, the running of a
command, and the window client with its connections, lists and parameters; it
checks them with TLC, and proves with TLAPS what says most about each part.

    tlasany RCFSession.tla                                       # parse
    tlc -config MCRCFSession.cfg MCRCFSession.tla                # check a run
    tlapm Conversation_proofs.tla                                # check a proof module

`PROJECT.json` lists the runs, the source lines behind each definition, the
findings, the hazards, and for every checked property a *mutant*: a definition
changed the way a plausible bug would change it, with which TLC refutes the
property. The mutants stand next to the definitions they change, marked
`Mutant of`, and no specification uses them.

## 1. The system

| Component | Source | State | Operations |
|---|---|---|---|
| Server threads | `librcfserver/src/Server.cpp`, `rcfserver/src/main.cpp` | one detached thread per connection: its socket, `logged_user`, the variables of the handler it is in; the server's `_perms`, `_commands`, `_groups`, read only after the constructor | `start`, `handleClient` (TLS), `handshake`, `authorize`, `handlePostauth` with `handleList`, `handleExecute`, `close`; `handleException`; `handleThreadExit` |
| Command line client | `librcfclient/src/Client.cpp`, `rcfclient/src/main.cpp` | socket, `_data`, the parser state `ps` of `execute`, the outputs collected | `handshake`, `authorize`, `list`, `execute`, `close`; the menu of `main` |
| Framing | `Client::read/write`, `Server::read/write` | position in the text, `addEnd`, `additionalEndSend` | cut a text into blocks of 1024, end it with character 3 |
| Catalogue | `Command.cpp`, `CommandGroup.cpp`, `Group.cpp`, `User.cpp` | names, permissions, members; in each `CommandGroup` and `Group` an *iterator* and an at-end flag | `canExecute`, `hasCommand`, `getCommandByName`, ... ; `addUser`, `removeUser`, `getNext...`, `reset...Iterator` |
| Configuration files | `load` and `save` of these classes and of `ServerDefinition.cpp` | a file for each object, and a cache of the loaded objects of each class | `save` into a new file, `load` line by line |
| Running a command | `ExecuteImpl.cpp`, `Command::getExec` | pipes, the child | fill the template, `fork`, read output and error, `waitpid` |
| Window client | `wxrcf/src/layout.cpp` | list of servers with a status each, the execute threads, `sharedParameter` with its flag, owner and critical section | connect, list, execute in a thread, ask for parameters in a modal dialog, close |
| Tools | `crcftool`, `srcftool` | none beyond the files | ask for the contents of one object and save it |
| Helpers | `librcfcommon` | none | hashing, home directory, exceptions |

How they interact:

- A client and its server thread alternate over one connection. Every text of
  the protocol goes through `write` on one side and `read` on the other; a
  `LIST` and an `EXEC` are answered by several texts, `EXEC` with questions
  (`PARAM`) in between.
- Server threads share the catalogue objects. Resolving a query only reads them;
  `handleSublist` *moves the iterators inside them*, without a lock.
- An exception in a handler reaches `mainfn`, whose `catch` writes it to the
  client. An exception in that `catch`, or in the TLS handshake before `mainfn`,
  leaves the thread's function and ends the process, all its sessions included.
- In the window client each command runs in an `ExecuteThread`, which posts an
  event to the GUI thread when the server asks for a parameter, and spins until
  the shared parameter is marked as meant for it. GUI and threads share the
  connections and the status of each; no lock guards them.
- The window client turns the answers to `LIST` of several servers into one tree
  of commands and sends the query of a leaf to all of them.
- The tools write one new file each; the server reads all files once, when it
  starts.

What is hard: threads that share iterators; blocks of several texts in one
direction at once; keeping two ends of a conversation in step over every branch
of `execute`; clients that vanish between any two steps; exceptions thrown while
handling exceptions; event handlers that nest inside modal dialogs and a critical
section its owner may enter again; connections that are closed or lost while commands run
on them; files that were only begun when the server starts. What each component
has to guarantee is listed with its module below; the hazards, line by line, are
in `PROJECT.json`.

## 2. The modules

| Module | What it is |
|---|---|
| `Transmission` | abstract: a FIFO of whole texts |
| `Framing` | the blocks that implement it |
| `Catalogue` | constants: the catalogue, `CanExecute`, `Resolve` |
| `RemoteService` | abstract: what a user gets from a session, no messages |
| `RCFSession` | the protocol: clients and server threads, exceptions, losses |
| `RCFSession_proofs` | theorems about `RCFSession`: types and login |
| `Conversation_proofs` | the same: requests and their answers, and that it implements `RemoteService` |
| `ListWalk` | `handleList`/`handleSublist` over shared iterators |
| `ListDialog` | the window client's tree, made of the answers of `ListWalk` |
| `ConfigFile` | `save` and `load` of one file, line by line, with a process that is killed |
| `Startup` | the server's constructor: which files are loaded, in which order, and what stays at the top level |
| `Iteration` | abstract: going through a group's users while some come and go |
| `GroupObject` | the array and the iterator of `Group` that implement it |
| `Setup` | `GroupObject`, `ConfigFile` and `Startup`, one after the other |
| `ExecTemplate` | `Command::getExec(params)` and what it should return |
| `ExecPipes` | `unix_execute` of several threads over pipes |
| `CommandExecute` | `Command::execute(params)`: the two one after the other |
| `ParamHandoff` | a parameter's way from the GUI thread to an `ExecuteThread` |
| `Window` | the window client around it: connections, dialogs, execute threads |
| `Framing_proofs`, `Setup_proofs`, `ExecPipes_proofs`, `Window_proofs` | theorems about these modules; those about templates are in `ExecPipes_proofs` |
| `ListWalk_proofs` | theorems about `ListWalk` and `ListDialog` |
| `Induction` | induction over numbers, recursive functions and `FlattenSeq`, in the form the proofs use |
| `MC...` | instances for TLC |

`RCFSession` and `ListWalk` extend `Catalogue`. `RCFSession` works with whole
texts, which `Framing` justifies: it implements `Transmission`, whose queue is
the channel `c2s[s]` or `s2c[s]`. `RCFSession` abstracts a `LIST` answer to some
sequence of names from `Listable`; `ListWalk` is the same handler in detail. Its
`ServerRun`, one step with any output, is `CommandExecute` in detail, which composes
`ExecTemplate` and `ExecPipes`.
`ListDialog` reads `listing`, the answers of the threads of `ListWalk`, as those of so
many servers. `Startup` ends where `Catalogue` begins: with command groups that contain
nobody twice and not themselves, and one object per file; `Setup` puts the making of a
file before it. `Window` extends `ParamHandoff`: its threads and its GUI take the steps
of that module, among others.

### Framing

`Write`, `WriteBlock` and `WriteReturn` are one call of `write`: the loop's three
branches are `Block` (a full block, a full block with an additional one to
follow, a last block with the separator). `ReadSome` is an iteration of the loop
in `read`. `Client` and `Server` have the same code, so one module stands for
both directions; the TLS stream, external, hands over the blocks one by one. In
the branch for `max_length - 1` characters the loop reads `trans[length]`, which
C++ defines as NUL, hence the NUL in `Block`.

### Catalogue

`First` is the loop that takes the first object of a name; `Resolve` is what
`handleExecute` makes of a query: run a command, or answer with `NCERROR`, or, for
an unknown first group only, with `ERROR`. A query is the sequence of its parts
(`Path`).

### RCFSession

One set of variables per session, `cpc` and `spc` the places of the client and
its thread, `c2s` and `s2c` the texts in flight. A text is a record of its first
word and its argument. Each handler of the server is an action that consumes the
text it reads, and puts the texts it answers with in `outq`; `ServerWrite` sends
them one at a time, so a client may be lost between any two of them, and the
thread reads on only when `outq` is empty. The client's actions are named for what
`Client::read` returned to. `ServerRun` is `Command::execute` with any output and
exit code from `Outputs` and `Codes`, `ServerRunThrows` the `ExecuteException`.
`RecvMark`, `RecvLine`, `LoopEnds` and the table `Section` are the parser of
`Client::execute`, its loop condition included, which tests for `ERREND` in every
state of the parser.

Failures: `Lost` (for `Flaky` sessions) takes the client away at any moment, in one of two
ways. Its process may be killed (`"failed"`): the system then ends the connection, and a
read of the thread throws. Or its host or network vanishes (`"vanished"`), of which nothing
tells the thread: `read_some` has neither a timeout nor a keepalive, so the read may throw
at some time or wait for ever (`Abandoned`). A write may succeed or throw in both cases.
`Untrusting` clients reject the server's certificate. `up` turns FALSE when an
exception leaves a thread.

`UnresolvedIsReported` is what `main` of the command line client intends: a query that leads
nowhere is reported, and only an error of a command that exists ends the client. No run
checks it, since the code does otherwise in two ways (section 3); the theorem
`RefusalIsReported` says that there is no third one.

`ran` records the last execution for the properties: nothing reads it.

### RemoteService

A guest logs in, asks, gives parameters, gets its command run at most once per
request, and gets its output and exit code back, or learns that there is no such
command; it may leave at any moment; every request ends. `RCFSession` implements
it with the refinement mapping `Service`.

### ListWalk

A step is one access to an iterator: `Test` and `ReadEnd` are `commandsAtEnd` and
`groupsAtEnd`, which compute a flag in the shared object and then return it;
`Check`, `Load`, `Store` and `Fetch` are `getNextCommand` and `getNextGroup` (their
own test, the `++` in two steps, the array read with the iterator as it is then);
`Reset` is `resetCommandsIterator` or `resetGroupsIterator`. These accesses race,
which C++ leaves undefined; the model gives them the outcomes of interleaved loads
and stores. `setCommandsEnd`, a read of the iterator and a write of the flag, is
taken as one step. `WriteThrows` is a client lost during the answer.

That a walk ends (`ListingsEnd`) has a premise, `BeginsFew`: the other threads do not begin
`LIST`s for ever. A thread that does may reset an iterator under the walk again and again,
and nothing in the code bounds how long that goes on.

`GroupListing` and `Nesting` say what a listing should be: the former is the part of the
tree that a user may see, the latter reads the lines of a listing and finds out whether
each is where the tree has it. `ForestAssumption` has no group contain itself, however
deep: on such a configuration the constructor does not come to an end (`Startup`).

### ListDialog

`Parse` is the loop over the lines of an answer, `Common` the one over the first
server's queries, `AppendByQuery` the method of that name, and `ResolveLeaf` what a
server does with the query that `listExecuteButtonOnButtonClick` makes of a leaf. The
dialog's text of a query is a sequence of names here; where the code runs two names
together without a colon, one element has both (`PassOn`). The tree is the sequence of
its leaves, each with the `Groups` above it. `TreeFaithful` has a part of its own for the
queries before they are put into the tree, `QueriesRun`.

### ConfigFile, GroupObject and Setup

`Class` says what each of the five classes writes and asks for; `WriteLine` is one
`<< endl` of `save`, since each flushes what it wrote, and `Killed` may come between any
two. `ReadLine` is one iteration of `load`, with its state `ps`. `save` never looks at
the stream and never replaces a file, so after a kill the half of a file stays and the
tool refuses to write it again (`Refused`).

`GroupObject` has the operations of `Group`; its refinement mapping cuts the array at
the iterator. `_usersEnd` is left out: `usersAtEnd` computes it before it returns it.

In `Setup` a program makes one file of a configuration, a user group after any edits,
and `Directories` is what the server finds then: the names that `load` read, whether the
object is valid, and whether it has a name, which is what the caches and the loops of
the constructor tell objects apart by.

### Startup

One thread runs the constructor, but the file system lists a directory in any
order: `ReadPerm`, `ReadCommand` and `ReadGroup` take any entry of `unread`. Files
are records of the names they name, in order; `invalid` and `unnamed` are the objects
whose file does not make them valid, or ends before their name. `Load` is what `Command::load`,
`Group::load` and `User::load` do to the caches, with the cache looked into first;
`CommandGroup::load` calls itself, so its calls are a `stack` of files with a line
each. Each call keeps its file open. When groups contain each other, `LoadNested` comes to
the end of what the system has: of the stack (`"crashed"`), or of descriptors. In the
latter case `load` does not notice that its file was not opened, and
`while(!in.eof())` never ends (`"looping"`). The same holds for any file that cannot be
read (`unreadable`); `Hangs` and `PermHangs` say which loads come to one before something
else makes them throw, and `Stopped` how the constructor ends or does not.
`Inside` is what `recursiveHasCommand` and `recursiveHasGroup` find. `PruneGroup` and
`PruneCommand` are one iteration each of the last two loops, `at` is their `i`, and
`AfterErase` the `i--` that makes up for an erased element.

### ExecTemplate

The nine states of the automaton before `parsenum` differ only in the character they
wait for, so the state is a number, `matched`, and `Character` one iteration of the
loop. A template is made up of pieces, `Literal`s and `Placeholder`s: the code goes
through their characters (`Fill`), `Reference` says what the pieces mean, and
`Substitutes` compares the two for every call that has returned. TLC builds all
templates of a few pieces. `TemplateAssumption` says which templates are meant:
placeholders with one digit, and between them any text, which is taken apart into pieces
where the beginning of a placeholder breaks off (`BreaksOff`); at the end there may also be
one that is `Unfinished`. Two kinds for which the code does something else are left
out; see section 3.

`CommandExecute` runs one call of `getExec` before the commands of `ExecPipes` start:
it shares no state with them, so when it happens makes no difference.

### ExecPipes

A thread goes through `pipe` three times, `fork`, the closing of the child's ends,
the two loops of `read`, the closing of its own ends and `waitpid`; each is an
action, and each call that may fail has a second one. The child has a copy of every
end that the server has open at `fork`, those of other threads included (`held`). Its
program is a sequence of operations. `Read` overwrites the beginning of `buffer` and
appends `Strings(buffer)`, the buffer up to its first NUL: this is what
`*stdout_target += buffer` does to a `char[]`. Where there is no NUL, C++ leaves it
undefined what else is appended, and the model takes nothing or one junk character.
A command may print NULs itself (`NulChars`): what came with one in the same read, after
it, is not in the string. `NothingMissing` is therefore about what was printed before the
command's first NUL on that stream.

### ParamHandoff

`Need` and `Take` are the `PARAM` branch of `wxRCF::execute`, `Dispatch`,
`EnterSection`, `CloseDialog` and `Return` the GUI's handler. Two loops wait by
entering and leaving `sharedParameterCS` until a condition holds; an iteration
that fails changes nothing and is not a step. The handlers form a stack because
`ShowModal` runs an event loop of its own, which dispatches the next event to the
same handler; `wxCriticalSection` is recursive for its owner, so the inner handler
is not shut out.

A dialog that is dismissed or left empty gives the empty text (`Blank`). `Client::write`
sends nothing for it, not even a separator: `Unanswered` threads stay in their read.

### Window

`window` is where the GUI is, and `handlers` the parameter dialogs over it. The user
acts on the dialog in front only (`AtMain`, `handlers = <<>>`); events of threads are
dispatched wherever a loop runs (`Loops`), which is not the case while the GUI itself waits
for a server (`Asking`): in `OnInitDialog` of the list dialog (`"listing"`), and in
`Client::close`, which sends `CLOSE` and reads its answer, for each selected row
(`"closing"`) or for all of them when the program is closed (`"quitting"`). Only then is a
connection deleted (`CloseEnds`). `Start`, `AskAndTake`, `Succeed`, `Fail` and
`UseDeleted` are an execute thread. `ListExecute` creates threads, but the status of their
server changes only in `Start`. `CloseAction` and `Quit` look at no status: where a command
talks on the connection, `SendClose` mixes two conversations. What the program
leaves undefined ends a behaviour: `fate` says whether two conversations met on a
connection, or something deleted was used. Servers are taken to answer, or their end of a
connection to end; the loss of a server's host is not modelled. `hasty` and `closedBusy` record whether the user
did what the code does not keep apart, and nothing reads them.

## 3. The runs

Runs that pass:

| Run | Instance | What it shows |
|---|---|---|
| `framing` | blocks of 4 cells, texts of 1, 2, 5, 6 and 9 characters, three in a row | texts arrive whole, once and in order although their blocks queue up, which is part of the inductive `FramingInv`; `Framing` implements `Transmission`, liveness included, so none stays behind |
| `session` | a session of two requests with all kinds of queries and wrong logins, whose client may be killed or whose host may vanish at any moment and whose runs may throw, next to a client whose rejection of the certificate ends the server at any moment | `Authenticated`; `RunsWhatWasAsked`; `Synchronised`: back at the menu nothing is left over; `ResultFaithful`: a result is that of this request's run; no deadlock of the two ends; implements `RemoteService`, so that no command runs unasked or twice; requests end, and threads, but for those that wait for a vanished host |
| `list` | two `LIST`s of one thread and one of another, which may be cut off | a listing that nothing overlaps and no cut-off precedes is complete, since the iterators are back where they started; any other may be incomplete but not false: each line is where the tree has it and what the user may run; the window client's tree, for whichever answers are put together, has only commands that each server runs for its user, and all of an undisturbed one (`TreeFaithful`); the walk ends although others move its iterators, as long as they do not begin `LIST`s for ever |
| `window` | two connections, three commands on them that ask for two, one and no parameters, in any order of connecting, listing, executing and closing, with servers that end connections | two conversations, of commands, lists and closings, never share a connection and nothing deleted is used, but for `hasty` and `closedBusy`; no command takes a parameter that was not answered for it; as long as dialogs do not nest, each gets the right parameters; commands end, but those that were answered with an empty text; and the GUI responds |
| `startup` | one small configuration any file of which is being made, a complete one, two with a user and a group of the same name, four with a missing file, five with one that cannot be read, one with a cycle, in every order of the directories | however much of a file was written, `load` reads a beginning of the object saved, never another one (`CutFileIsHarmless`); the server starts exactly on the consistent ones, but for what a hidden user group names (`Verdict`), always with the same top level (`TopLevel`), one object per file (`LoadedOnce`) and all users that share no name with a group (`EveryoneKnown`); the constructor ends, unless there is a cycle or an unreadable file; going through the users of a group gives each once, whatever is added and removed meanwhile (`ImplementsIteration`) |
| `exec` | two threads, four programs, pipes of four characters, a buffer of three, failing calls; templates of up to three pieces | everything printed before a NUL arrives, in order and on its own stream (`NothingMissing`, `StreamsSeparate`); nothing is left open; runs end unless a command is `Starved` for ever; its input does not end while it runs; templates are filled as `Reference` says |

Runs in which TLC refutes what a comment of the code says:

| Run | Violated | What happens |
|---|---|---|
| `framing_full_block` | `NothingLost` | a text of exactly `max_length` characters is sent without separator; the reader waits |
| `session_untrusting` | `ServerSurvives` | a client that rejects the certificate ends the server: `handleClient`'s TLS handshake is outside any `try` |
| `list_bounds` | `InBounds` | two `LIST`s at once: both pass the test of `getNextCommand`, both increment, one reads behind the array |
| `list_tree` | `TreeFaithful` | three groups at the top level, the third with a subgroup: the subgroup and its command become one name, which no server knows |
| `param_mixed` | `RightParameter` | two commands at once: what was typed for one is given to the other |
| `exec_output` | `OutputFaithful` | a read shorter than the one before it appends again what that one left in the buffer |

The same models show further consequences, for which no run is kept; each takes
a changed constant or a dropped condition:

- `Framing` with a text of `max_length - 1` characters: `Intact` fails, the text
  is received with a NUL at its end.
- `RCFSession` with `Flaky` clients and no `Untrusting` one: the server ends when
  the write in `handleException` throws as well (`ServerSurvives`).
- `RCFSession` with `Outputs <- Markers`: `ResultFaithful` fails, a command that prints
  the line `ERREND` ends the client's loop in the middle of its output, and the rest is
  left to the next request.
- with `"OUTEND"` printed by a command: the client fails in the middle.
- with the query `other` of `MCPath`, whose first group is unknown: `UnresolvedIsReported`
  fails, the server answers `ERROR` and not `NCERROR`, and `main` ends the client.
- with the query `ls` in `Queries` and `ShortQueries`: `UnresolvedIsReported` fails
  because `msg.substr(8)` throws. The code takes the substring of `msg`, the request,
  where it means `resp`.
- `ListWalk` without `alone[t]` in `CompleteListing`: it fails, for two threads at once
  and also for one after a `LIST` that was cut off, which leaves the iterators where
  they were.
- `Window` without `nested` in `CommandsEnd` and `GuiResponds`: with two
  commands a thread's mark is overwritten by the outer handler, and it waits for ever;
  with three the handler of the third spins while the outer dialog holds the section.
- `Window` without `Unanswered` in `CommandsEnd`: a parameter dialog is dismissed, nothing is
  sent, and the server and the thread wait for each other; the status stays `Processing`.
- `Window` without `hasty` in `ConversationsApart`: the list button, clicked after a
  command was chosen and before its thread has begun, sends `LIST` in the middle of the
  conversation of the command.
- `Window` without `closedBusy` in `ConversationsApart`: a close button writes `CLOSE` on a
  connection on which a command talks. Without it in `NothingDeletedInUse`: a thread
  that was created before the connection was closed begins on one that is deleted. And `fate` becomes
  `"terminated"` when a server that has ended its connection is listed: nothing catches the
  exception of `list` in the dialog's initialisation.
- `RCFSession` without `Abandoned` in `ThreadsEnd`: the thread of a client whose host has
  vanished never ends.
- `ListDialog` with a group in `EndNames`: `TreeFaithful` fails, its opening line closes
  the group around it, or pops an empty vector.
- `Setup`: after a tool was killed, `Refused` says that it cannot finish the file; the
  server starts on it nevertheless if no other file names the object.
- `ExecPipes` without `Starved` in `RunsEnd`: a command that prints more on its standard
  error than a pipe holds before it closes its output, or that reads its input, blocks
  for ever, with its thread, and every thread whose write ends it has inherited.
- `ExecPipes` without `BeforeNul` in `NothingMissing`, and a buffer of five characters: what a
  command prints after a NUL, in the same read, is lost.
- `Startup` without its second part in `StartupEnds`: with command groups inside each other,
  or a file that cannot be read, the server neither starts nor says why.
- `ExecPipes` with `"broken"` in `Closed`: `NothingLeftOpen` fails, a failed read throws
  without closing the pipes.
- `ExecTemplate` with `Literal(<<"{", "}">>)` among the `LastPieces`: `Substitutes` fails,
  `ls {}` becomes `ls {}{`. With `Literal(<<"{">>)` among the `Pieces`: the placeholder in
  `{{rcfparam:0}` is not seen.
- `Startup` with `EveryoneKnown` for all users: fails for one with the name of a group
  that is listed first; the user cannot log in.
- `RCFSession` with `""` in `Params`: `NoMutualWait` fails. `write` sends no block
  for an empty text, so the thread waits for the parameter and the client for
  `EXECBEGIN`.

### Bounds, and why they suffice

- Blocks of 4 cells: the code compares the rest of a text with `max_length` and
  `max_length - 1` only; 1, 2, 5, 6 and 9 characters are one, two and three blocks
  with a last one of one or two characters. Three texts let the blocks of one
  queue behind those of another.
- `MaxRequests` 2: one request leaves residues, a second meets them. The theorems hold for
  any number. `MaxListed` only bounds the length of an answer.
- One session that does anything: sessions share nothing but `up` and the
  catalogue, which is constant; the second one exists to end the server at every
  moment. The proofs hold for any number of sessions.
- The catalogue has a command without parameters at the top, one with two
  parameters in a nested group, one nobody may run, a user in a group and one not
  named; queries for each, and for a command that does not exist.
- `MaxLists` of `ListWalk` bounds how often the other threads begin a `LIST`; that they do
  not do it for ever is a premise of `ListingsEnd`, so that the bound hides no
  counterexample to it. Two `LIST`s of one thread and one of another are
  what it takes to be undisturbed after another, disturbed, and cut off.
- `ListWalk`: a group with two commands and one or two subgroups is the smallest
  tree in which both iterators move, are tested, and are reset at two depths.
- `ListDialog`: the answers of two servers, in both orders, each disturbed or not; three
  groups at the top level are the fewest with which names run together.
- `Window`: three threads are needed for three nested handlers, and two connections for a
  command on one while the other is listed or closed; with two threads on one connection
  and a third on the other, every pair that the status must keep apart occurs.
- `Setup`: the five classes with up to two names in a section, in a configuration in which
  the cut file is named by others one and two loads away, and by none. `GroupObject` has
  no bound but its three users, one of them invalid.
- `Startup`: a command at the top level and in a group, a group in two others, one of
  which contains the other, so that up to three objects are pruned next to each other.
- `ExecPipes`: two threads suffice for inherited ends; each executes one command, since
  nothing but descriptors is left of an execution and `NothingLeftOpen` says none is. A
  buffer smaller than a pipe, as in the system, gives full, partial and shrinking reads.
  One character of each stream of one thread is NUL.
- `ExecTemplate`: text that breaks off at the first and at the last character of the
  placeholder's beginning, indices in and out of range, in any order and number.

### Fairness

- `RCFSession`: weak fairness of each client's and each thread's own steps: the
  operating system schedules both, commands end, and a parameter that is asked for
  is typed; and the system ends the connections of a process that has ended. The user is
  not obliged to do anything else, and losses are not fair. `ThreadRuns` takes the threads
  out that wait for a vanished host: nothing obliges their read to throw.
- `Framing`: a started `write` and a blocked `read_some` go on when they can.
- `ListWalk`: each thread that is in a walk is scheduled.
- `Startup`: the constructor runs; nothing ends it in a loop over a file that was not opened.
- `Setup`: the constructor runs; a program writes on until it is killed, whoever edits a
  group saves it in the end, and somebody starts the server.
- `ExecPipes`: threads and commands are scheduled. Failing calls are not fair, otherwise
  a failing `read` would end every wait.
- `Window`: the threads are scheduled, servers answer or end the connection, unless they wait
  for a text that was not sent (`Unanswered`), and the user answers the parameter
  dialog in front. Events that are queued get strong fairness: the user may go back and
  forth between dialogs in which no event loop runs, but each loop that does run takes
  queued events first. The user is not obliged to do anything else.

## 4. What is proved

Theorems hold for every value of the constants that the assumptions of the modules
allow: any number of sessions, threads, connections and texts, any catalogue, any
sizes. A theorem has further hypotheses only where the code needs them; what happens without
them is among the consequences in section 3, or said below.

| Module | Theorems | Hypotheses |
|---|---|---|
| `RCFSession_proofs` | `TypeCorrect`, `LoginInductive`, `OnlyAuthenticated` | |
| `Conversation_proofs` | `ConversationInductive`, `OnlyWhatWasAsked`, `MenuIsSynchronised`, `ResultOfTheRun` | `Plain` |
| | `ServiceInductive`, `ServiceIsImplemented` | `Plain` |
| | `NeverMutualWait` | `Plain`, no parameter is empty |
| | `RefusalIsReported` | `Plain`, `KnownGroups`, `ShortQueries = {}` |
| `Framing_proofs` | `FramingInductive`, `NothingIsLost`, `FramingRefines` | `AllSafe` |
| `ExecPipes_proofs` | `PipesInductive`, `PipesTypeCorrect`, `NothingIsMissing`, `StreamsAreSeparate`, `NothingIsLeftOpen`, `InputDoesNotEnd` | |
| | `TemplateInductive`, `TemplatesFilledIn` | |
| `ListWalk_proofs` | `WalkTypeCorrect`, `SoundInductive`, `ListingIsSound`, `CompleteInductive`, `ListingIsComplete` | |
| | `QueriesAreRun` | `NamesDiffer` |
| | `TreeIsFaithful` | `NamesDiffer`, `FewSiblings`, `EachIsSomewhere` |
| `Window_proofs` | `WindowInductive`, `WindowTypeCorrect`, `NeverMixed`, `NeverDeletedInUse`, `ParametersAreAnswered`, `ParametersAreRight` | |
| `Setup_proofs` | `IterationIsFollowed`, `PermsInductive`, `EveryoneIsKnown`, `LoadInductive`, `EverythingIsLoadedOnce`, `StartIsJustified`, `TopInductive`, `TopLevelIsRight`, `SaveInductive`, `FilesAreHarmless`, `SetupIsTyped` | |

- `Plain`: no command or group is called `ENDLIST`, and no command prints `OUTEND` or
  `ERREND` on its output or `ERREND` on its error output: `Client::list` and
  `Client::execute` would take such a line for the end of the answer.
- `KnownGroups`: a query of several parts begins with a group of the top level;
  for another one `handleExecute` answers with an `ERROR`. `ShortQueries`, of
  one or two characters, are the other exception to `UnresolvedIsReported`.
- `AllSafe`: no text has the separator in it, and the last block of each has between 1
  and `max_length - 2` characters; a full last block is the violation
  `framing_full_block`, one character less the text that gets a NUL, and an empty
  text is not sent at all.
- `NamesDiffer`: no two commands, and no two command groups, have the same name, which the
  server's caches see to, and no group is called `end...`: the window client takes the line that
  opens it for one that closes a group.
- `FewSiblings`: where three or more groups are side by side, none of them has a group in
  it. `appendByQuery` leaves the colons out when the place of a group among its siblings
  is the number of parts that are left (`layout.cpp`, line 67); at the first two places
  one part at most is passed on, and has no colon. The violation `list_tree` is the
  smallest tree beyond. The condition is sufficient, not necessary: nothing is lost either
  when the groups inside a third one have no command that anybody is shown.
- `EachIsSomewhere`: every command is in a group that can be reached from the top, or at the top.
  The constructor sees to it (`TopLevel`), but `Catalogue` does not say so.

### Login

`Authenticated` is not inductive: that `authorize` returns to the menu only on
`AUTHORIZED` depends on what can be in flight. `Client::authorize` accepts *every*
answer to `USER` that is neither `PASS` nor `ERROR`, and to `PASS` every one that is
not `ERROR`, so the proof has to show that nothing else can come. `LoginInv` says,
per place of the client, where the thread is and which text is under way: nothing
before the login (`InStart`, `InTls`, `InHello`, `InLogin`), one question or its
answer during it (`InHelloReply`, `InUserReply`, `InPassReply`), and after the loss
of a client, that what it left unread still carries its own name and password
(`AfterFailure`). A step of session `s` is shown to keep `LoginStage(s)` by one lemma
per group of actions and, since a step of `s` leaves all variables of other sessions
alone (`OthersSame`, `SameStage`), that of every other session. `LoginMeans` derives
`Authenticated`.

### Requests and the service

The client does not know how many lines a listing or an output has, so whether it
ever reads too few or too many depends on the whole of what is on its way.
`ConversationInv` speaks of `Pending(s)`, the texts in flight followed by those the
thread has yet to write; they differ only in who has them, so `ServerWrite` changes
nothing of it. For each place of the client it says what `Pending(s)` is:
for `execute`, by the state of its parser, the end of the report of the run from the
next mark on (`Reporting`), of which the result has the part before. `ThreadSide` holds
also when the client has gone, and keeps the parameters: those the thread has are
those typed, but for one that is on its way (`Awaited`).
`RunsWhatWasAsked`, `Synchronised` and `ResultFaithful` are parts of it;
`NeverMutualWait` shows that wherever both wait something is `Pending`.

`ServiceIsImplemented` is the refinement: the initial states are `RemoteService`'s, and each
action of `RCFSession` is mapped to a step of the service or leaves its state as it
is. It needs besides that results and numbers of requests are those of the request
(`Counted`). `ImplementsService` has a liveness part that stays with TLC.

### Framing

`FramingInv` says that the blocks in the stream are linked (`Linked`): each is the `Block`
of its place in the texts, and the place after it is that of the next block, from where
the reader is to where the writer is. Taking the first or adding a last one keeps
that (`LinkedShorter`, `LinkedLonger`). `FramingRefines` is the safety part of `ImplementsTransmission`.

### Running a command

`PipesInv` says which ends are open at each place of a thread (`OpenEnds`) and that a
running command holds its own (`CommandHolds`), hence that its output ends only with it;
that what is in a pipe is the last of what was written (`InPipe`), what is in the buffer is
of the stream that is being read or of none that counts (`InBuffer`), and that the strings
have everything before it, up to the first NUL, in order (`Collected`). The strings may have more, what
shorter reads append again: `Collected` speaks of the first positions. The theorems are about
`ExecuteSpec`, the steps with the filling of templates between them.

### Templates

The pieces of a template are chosen so that between two of them the automaton of `getExec`
is back in its first state, whatever `potentialparam` has kept (`Fresh`); that `out` is then
what the pieces so far become, the flattened sequence of them, is `GoneThrough`. Each kind
of piece has a lemma about its characters, by induction over them: a
placeholder is matched and replaced; a text that `BreaksOff` is put
out whole with the character that does not fit; one that is `Unfinished` is left over, and
the code puts it out after the loop. That it is put out once at the end, and nothing else is, needs the
conditions on the last piece in `TemplateAssumption`. A placeholder without a parameter
makes the call throw, wherever it is.

### The walk

`SoundInv` explains why no disturbance makes a listing false. The calls of
`handleSublist` on the stack are the groups that the lines so far have open, each in the
one before it. A `Fetch` reads the array of the group on the stack, so
whatever value other threads have given the iterator, what it finds is in this group; and
permissions do not change.

That an undisturbed listing is complete is about the state it finds. As long as no `LIST`
was cut off, an iterator that no thread has yet to reset (`Engaged`) is at its start (`AtStart`):
a thread resets an iterator before it goes on from it, also when another one has moved it to
the end, so the last one to go leaves it reset. That a thread does not reset an iterator it
still uses further out needs `ForestAssumption`: the heights of the groups on a stack differ
(`Climbing`). For a thread that nothing overlaps (`Undisturbed`), the iterators of its groups are as
it left them itself, and its listing is that of the part of the tree that
they are past (`OnItsWay`), which at the end is the whole of it.

### The tree of the window client

`Parse` and `Nesting` read the same lines; the vector of open groups that the dialog keeps is
the path of the server's (`Agrees`), so each query leads through groups of the catalogue to a
command that the user may run. `QueriesAreRun` follows with `NamesDiffer`. `Common` has just the
queries that all servers answered. For the tree, a leaf must still be the query
it was made of, whatever was added before it. The groups below a node are children of one
group of the catalogue, each once (`GroupsAre`); so with at least three parts left, below a node
that has a group with a subgroup, there are no more than two of them
(`FewGroups`), and no colon is left out that has parts on both its sides (`PassedOn`). Hence
all leaves consist of single names (`TreeOfQueries`, `LeafResolved`). That
nothing is lacking rests on `ListingIsComplete` and on `ListingHas`, which finds each permitted
command in the flattened listing of a tree of any depth.

### The window

`HandoffInv` has a waiting thread in one place (`InOnePlace`): its event is queued, or
a handler on the stack has it, or the mark is its own, or it was overwritten. While no dialogs
nested, the shared parameter is the last answer for who is to take it (`InTurn`).
`WindowInv` adds that the status of a connection tells of the one thread that talks
on it (`OneEach`), that the threads of deleted connections have ended (`NoneDeleted`), as has that
of the row being closed (`ClosingIdle`), unless it was closed busy, and that
connections and threads are numbered as they are made, which makes what is created new.
That a selection keeps the order of its list is a fact about `Among`, proved
by induction (`AmongFacts`).

### Configuration

`GroupInv` keeps the iterator of `Group` inside the array; with it every operation is one of
`Iteration` on the two parts `PassedOf` and `AheadOf` of the array, whichever side of the
iterator a user is removed from. `IterationIsFollowed` is the whole of the property.
`PermsInv`: every file in the directory is unread, loaded or hidden by one of its name.

What the caches hold is the subject of `LoadInv`. A load puts an object into its cache
after all that it names (`CacheFor`), so nothing in a cache is incomplete, and every file
of commands is still unread, being loaded, or in the cache (`CommandsFor`): at the
end, when nothing is unread and the stack is empty, all are, and the configuration is
complete. Only a user group that a user hides, and that no command names, is never
loaded, and not read; `Verdict` excepts it, and `HiddenMissing` of `MCStartup` has one.

- That no object is made twice needs the stack (`StackFor`): a call has taken all names
  before its line, and waits for the one before it while another call is above. The call
  that returns is the last one. Were its group being loaded below as well, that call would
  wait for one of the names of the last call or of those between, and they are in
  the cache.
- No group that has been loaded contains itself: it would be in the cache before itself
  (`InsideLoaded`). Conversely a stack of `MaxDepth` calls that needs one more has a group
  twice (pigeonhole), and of two calls the upper one's group is `Inside` the lower one's,
  so `"crashed"` means `Cyclic`. `"looping"` has the same reason, or a file that cannot be
  read, which `HangsFacts` finds behind a load that does not return; and what is in a
  cache was read to its end (`Readable` in `CacheFor`), so a server that has started could
  read all that it has loaded.
- `TopInv` says where everything is: at the top level once, in a group that is there, or
  still to come (`PlacesFor`); `PrunedFor` says that what the loops have passed is in no
  group, which still holds when an element before or after it is erased. Taking a group
  off loses nothing: the one that has it has also all that is inside (`Inside` is
  transitive), and is another one, since none contains itself.

`SaveInv` is about a file and the automaton that reads it: the file is a beginning of
`Lines`, and `ReadTo` says where the automaton is after `k` of them. It is after or before
the value of a section, inside a list or after one, and it has exactly the values
and names before that place. That a killed program left the file short only
means that the last place is an earlier one; with all lines it is the end of the last
list, or the value of `certfile`, the one section that `load` does not leave. That a line of a list gives back
the object that was saved needs that the sections of a class have different names
and that an object is named by its type and name alone, which is what `SetupAssumption`
says of the configurations: a file has nothing else of what it names.
`CutFileIsHarmless` follows from each of the four places. `TypeInv` has what the other
invariants do not say of types, among it that the stack, also that of a start that
has failed, holds at most `MaxDepth` calls.

`Inside` is a recursive function of the depth. That it is closed, though it stops after
as many steps as there are groups, is a counting argument about finite sets (`FilesInv` has the
files well formed at any time, also those that a killed program left).

### Assumptions

Those of the modules: `CatalogueAssumption` (types of the catalogue), those of `RCFSession`
(bounds are naturals, `None` is none of the values, texts that carry a query are not
keywords), `MaxLengthAssumption` and its neighbours in `Framing`, `PipesAssumption`,
`HandoffAssumption` and `WindowAssumption` (threads and connections are finitely many
numbers), `ForestAssumption` (finitely many groups, none inside itself), `DialogAssumption`
(the window has finitely many servers), `TemplateAssumption` (which templates are meant),
`GroupObjectAssumption`, `StartupAssumption`, `SetupAssumption`.
`OutputsAssumption` says that the lines of an output, with blank ones removed, are lines of
that output; it is a fact about `SelectSeq`, whose recursive definition the provers
cannot unfold. TLC evaluates all of them for each instance.

The library states induction for an operator, which the provers cannot be given.
`Induction` derives it for sets of numbers from the library's theorem that `<` on the natural
numbers is well-founded. Recursive functions can then be proved about: this is why
`Window` defines `Among`, `ConfigFile` defines `Listed` and `ListWalk` defines `Permitted`, where
`SelectSeq` would do, and why `Nesting`, the loops of `ListDialog` and `Characters` and `AtoI` in
`ExecTemplate` are functions of how far the loop has come and not folds.

### Only model-checked

- Liveness: `RequestsEnd`, `ThreadsEnd`, `ListingsEnd`, `CommandsEnd`, `GuiResponds`, `RunsEnd`, `StartupEnds`
  and the liveness of `ImplementsService` and `ImplementsTransmission`. The prover has no
  rules for fairness and `ENABLED`.

The safety properties of the passing runs, invariants and action properties alike, are all
stated by theorems. The violated runs show by a behaviour what no proof is needed for.

## 5. What is not modelled

Not modelled, with the reason:

- Names with blanks, or that look like a mark (`[x]`): `load` of users and groups reads
  word by word. The tools read names the same way, so they cannot make the former.
- A full disk or a file cut within a line: `save` does not look at the stream at all.
- `CommandGroup::addPermission` and `recursiveAddPermission`, which no program calls; with a
  command that is in two groups the latter throws halfway.
- The `io_service` of a window client's connection, a local variable of the handler that
  connects, which the `Client` refers to afterwards: it is wrong on every connection, in
  no particular order of steps.
- The status and output shown for the selected server. They are read while a thread writes
  them, and the error output is never shown: `newCommandErrorText` is made of
  `wxEmptyString`.

Left out for good: hashing (`MHashEngine` wraps a library; a password check is
equality), the questions the tools ask, generated dialog code, the test programs, and `windows_execute`, which is built only on Windows.
A child whose `execl` fails, which goes on as a second server process, is not modelled
either: it takes a system without `/bin/sh`.

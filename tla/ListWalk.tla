------------------------------ MODULE ListWalk ------------------------------
(***************************************************************************)
(* Server::handleList and handleSublist, run by the threads of several     *)
(* sessions at once.  The walk over a command group uses the iterators     *)
(* stored in the CommandGroup object, which all threads share and no lock  *)
(* protects: each read and write of an iterator is a step of its own.  An  *)
(* object's flag that its iterator is at the end is shared as well;        *)
(* setCommandsEnd and setGroupsEnd, which compute it, are one step.        *)
(***************************************************************************)
EXTENDS Catalogue, Integers, FiniteSets, SequencesExt

CONSTANTS Threads,      \* server threads that may handle a LIST
          MaxLists,     \* bound: LISTs of each thread
          Losing        \* threads whose client may be lost during a LIST

(* No group contains itself, however deep: the constructor's loading of the *)
(* groups does not come to an end otherwise.                                *)
Heights == {height \in [CommandGroups -> 0..Cardinality(CommandGroups)] :
              \A g \in CommandGroups : \A i \in DOMAIN GroupsIn[g] :
                height[GroupsIn[g][i]] < height[g]}

ASSUME ForestAssumption == IsFiniteSet(CommandGroups) /\ Heights # {}

VARIABLES it,           \* _commandsIterator and _groupsIterator of each group
          atEnd,        \* its _commandsEnd and _groupsEnd
          pc,           \* where each thread is
          user,         \* its logged_user
          stack,        \* the groups of its calls of handleSublist
          kind,         \* whether it walks the commands or the groups of one
          reg,          \* its register during an increment
          top,          \* index of the next top-level group
          listing,      \* the lines written so far
          crashed,      \* an array was read out of its bounds
          lists,        \* LISTs made, for the bound
          cutOff,       \* auxiliary: a LIST was cut off inside a group
          alone         \* auxiliary: no LIST overlapped a thread's latest one,
                        \* and none was cut off before it

history == <<lists, cutOff, alone>>
vars == <<it, atEnd, pc, user, stack, kind, reg, top, listing, crashed, history>>

Kinds == {"commands", "groups"}
Content(g, k) == IF k = "commands" THEN CommandsIn[g] ELSE GroupsIn[g]

Open(g) == <<"open", g>>
Item(c) == <<"command", c>>
End == <<"end", None>>

(* The lines for those of some commands that the user can execute.          *)
Permitted(cs, u) ==
  LET upTo[n \in 0..Len(cs)] ==
        IF n = 0 THEN <<>>
        ELSE IF CanExecute(cs[n], u) THEN Append(upTo[n - 1], Item(cs[n]))
        ELSE upTo[n - 1]
  IN  upTo[Len(cs)]

Init ==
  /\ it = [g \in CommandGroups |-> [k \in Kinds |-> -1]]
  /\ atEnd = [g \in CommandGroups |-> [k \in Kinds |-> Len(Content(g, k)) = 0]]
  /\ pc = [t \in Threads |-> "idle"] /\ user = [t \in Threads |-> None]
  /\ stack = [t \in Threads |-> <<>>]
  /\ kind = [t \in Threads |-> "commands"]
  /\ reg = [t \in Threads |-> 0] /\ top = [t \in Threads |-> 1]
  /\ listing = [t \in Threads |-> <<>>] /\ crashed = FALSE
  /\ lists = [t \in Threads |-> 0]
  /\ cutOff = FALSE /\ alone = [t \in Threads |-> FALSE]

Group(t) == Head(stack[t])              \* the group of the innermost call
Iterator(t) == it[Group(t)][kind[t]]
Size(t) == Len(Content(Group(t), kind[t]))
SetEnd(t, n) == atEnd' = [atEnd EXCEPT ![Group(t)][kind[t]] = n >= Size(t) - 1]
SetIterator(t, n) == it' = [it EXCEPT ![Group(t)][kind[t]] = n] /\ SetEnd(t, n)

AtPlace(t, where) == ~crashed /\ pc[t] = where
Goto(t, where) == pc' = [pc EXCEPT ![t] = where]
WriteLines(t, lines) == listing' = [listing EXCEPT ![t] = @ \o lines]

(* handleList, up to the groups: the top-level commands.                    *)
Begin(t, u) ==
  /\ AtPlace(t, "idle") /\ lists[t] < MaxLists[t]
  /\ lists' = [lists EXCEPT ![t] = @ + 1] /\ UNCHANGED cutOff
  /\ alone' = [x \in Threads |->
       IF x = t THEN ~cutOff /\ \A y \in Threads : pc[y] = "idle"
                ELSE alone[x] /\ pc[x] = "idle"]
  /\ user' = [user EXCEPT ![t] = u] /\ top' = [top EXCEPT ![t] = 1]
  /\ listing' = [listing EXCEPT ![t] = Permitted(TopCommands, u)]
  /\ Goto(t, "top")
  /\ UNCHANGED <<it, atEnd, stack, kind, reg, crashed>>

(* A call of handleSublist, which opens with the name of the group.         *)
Enter(t, g) ==
  /\ stack' = [stack EXCEPT ![t] = <<g>> \o @]
  /\ kind' = [kind EXCEPT ![t] = "commands"]
  /\ WriteLines(t, <<Open(g)>>) /\ Goto(t, "test")

(* handleList: the next top-level group, or the end of the answer.          *)
NextTop(t) ==
  /\ AtPlace(t, "top")
  /\ IF top[t] <= Len(TopGroups)
     THEN Enter(t, TopGroups[top[t]]) /\ top' = [top EXCEPT ![t] = @ + 1]
     ELSE Goto(t, "idle") /\ UNCHANGED <<stack, kind, listing, top>>
  /\ UNCHANGED <<it, atEnd, user, reg, history, crashed>>

(* commandsAtEnd or groupsAtEnd: it computes the flag, ...                  *)
Test(t) ==
  /\ AtPlace(t, "test")
  /\ SetEnd(t, Iterator(t)) /\ Goto(t, "flag")
  /\ UNCHANGED <<it, user, stack, kind, reg, top, listing, history, crashed>>

(* ... and returns what the flag is then.                                   *)
ReadEnd(t) ==
  /\ AtPlace(t, "flag")
  /\ Goto(t, IF atEnd[Group(t)][kind[t]] THEN "reset" ELSE "check")
  /\ UNCHANGED <<it, atEnd, user, stack, kind, reg, top, listing, history, crashed>>

(* Mutant of Check: the call is made again when the iterator is at the end. *)
CheckRetries(t) ==
  /\ AtPlace(t, "check")
  /\ Goto(t, IF Iterator(t) + 1 < Size(t) THEN "load" ELSE "check")
  /\ UNCHANGED <<it, atEnd, user, stack, kind, reg, top, listing, history, crashed>>

(* getNextCommand or getNextGroup: its own test, which throws AtEnd, ...    *)
Check(t) ==
  /\ AtPlace(t, "check")
  /\ Goto(t, IF Iterator(t) + 1 < Size(t) THEN "load" ELSE "reset")
  /\ UNCHANGED <<it, atEnd, user, stack, kind, reg, top, listing, history, crashed>>

(* ... its increment of the iterator, a read ...                            *)
Load(t) ==
  /\ AtPlace(t, "load")
  /\ reg' = [reg EXCEPT ![t] = Iterator(t)] /\ Goto(t, "store")
  /\ UNCHANGED <<it, atEnd, user, stack, kind, top, listing, history, crashed>>

(* ... and a write, ...                                                     *)
Store(t) ==
  /\ AtPlace(t, "store")
  /\ SetIterator(t, reg[t] + 1) /\ Goto(t, "fetch")
  /\ UNCHANGED <<user, stack, kind, reg, top, listing, history, crashed>>

(* ... and the array read at the iterator's value of now; a command is      *)
(* listed when the user can execute it, a group is entered.  Out of the     *)
(* array's bounds the pointer read is no object, and following it crashes.  *)
Fetch(t) ==
  /\ AtPlace(t, "fetch")
  /\ IF Iterator(t) + 1 \notin 1..Size(t)
     THEN crashed' = TRUE /\ UNCHANGED <<pc, stack, kind, listing>>
     ELSE LET x == Content(Group(t), kind[t])[Iterator(t) + 1] IN
          /\ UNCHANGED crashed
          /\ IF kind[t] = "groups" THEN Enter(t, x)
             ELSE /\ WriteLines(t, Permitted(<<x>>, user[t]))
                  /\ Goto(t, "test") /\ UNCHANGED <<stack, kind>>
  /\ UNCHANGED <<it, atEnd, user, reg, top, history>>

(* Mutant of Reset: the iterator of the groups is not reset.                *)
ResetCommandsOnly(t) ==
  /\ AtPlace(t, "reset")
  /\ IF kind[t] = "commands"
     THEN SetIterator(t, -1) /\ kind' = [kind EXCEPT ![t] = "groups"]
          /\ Goto(t, "test") /\ UNCHANGED <<stack, listing>>
     ELSE /\ WriteLines(t, <<End>>) /\ stack' = [stack EXCEPT ![t] = Tail(@)]
          /\ Goto(t, IF Len(stack[t]) = 1 THEN "top" ELSE "test")
          /\ UNCHANGED <<it, atEnd, kind>>
  /\ UNCHANGED <<user, reg, top, history, crashed>>

(* Mutant of Reset: a call of handleSublist ends the calls around it.       *)
ResetReturnsTwice(t) ==
  /\ AtPlace(t, "reset")
  /\ SetIterator(t, -1)
  /\ IF kind[t] = "commands"
     THEN kind' = [kind EXCEPT ![t] = "groups"]
          /\ Goto(t, "test") /\ UNCHANGED <<stack, listing>>
     ELSE /\ WriteLines(t, <<End>>) /\ stack' = [stack EXCEPT ![t] = Tail(@)]
          /\ Goto(t, "top") /\ UNCHANGED kind
  /\ UNCHANGED <<user, reg, top, history, crashed>>

(* Mutant of Reset: handleSublist does not close its bracket.               *)
ResetUnclosed(t) ==
  /\ AtPlace(t, "reset")
  /\ SetIterator(t, -1)
  /\ IF kind[t] = "commands"
     THEN kind' = [kind EXCEPT ![t] = "groups"]
          /\ Goto(t, "test") /\ UNCHANGED <<stack, listing>>
     ELSE /\ stack' = [stack EXCEPT ![t] = Tail(@)]
          /\ Goto(t, IF Len(stack[t]) = 1 THEN "top" ELSE "test")
          /\ UNCHANGED <<kind, listing>>
  /\ UNCHANGED <<user, reg, top, history, crashed>>

(* The iterator is reset; after the commands come the groups, after these   *)
(* the closing bracket and the return to the caller, which walks groups.    *)
Reset(t) ==
  /\ AtPlace(t, "reset")
  /\ SetIterator(t, -1)
  /\ IF kind[t] = "commands"
     THEN kind' = [kind EXCEPT ![t] = "groups"]
          /\ Goto(t, "test") /\ UNCHANGED <<stack, listing>>
     ELSE /\ WriteLines(t, <<End>>) /\ stack' = [stack EXCEPT ![t] = Tail(@)]
          /\ Goto(t, IF Len(stack[t]) = 1 THEN "top" ELSE "test")
          /\ UNCHANGED kind
  /\ UNCHANGED <<user, reg, top, history, crashed>>

(* A write of a line throws because the client is gone: the exception       *)
(* leaves the walk and ends the session; the thread then serves another.    *)
WriteThrows(t) ==
  /\ t \in Losing /\ ~crashed /\ pc[t] \in {"top", "test"}
  /\ Goto(t, "idle") /\ stack' = [stack EXCEPT ![t] = <<>>]
  /\ listing' = [listing EXCEPT ![t] = <<>>]
  /\ cutOff' = (cutOff \/ stack[t] # <<>>)
  /\ user' = [user EXCEPT ![t] = None]
  /\ UNCHANGED <<it, atEnd, kind, reg, top, crashed, lists, alone>>

Step(t) == \/ NextTop(t) \/ Test(t) \/ ReadEnd(t) \/ Check(t) \/ Load(t)
           \/ Store(t) \/ Fetch(t) \/ Reset(t)

Next == \E t \in Threads : Step(t) \/ WriteThrows(t) \/ \E u \in Users : Begin(t, u)

(* Every thread is scheduled.                                               *)
Spec == Init /\ [][Next]_vars /\ \A t \in Threads : WF_vars(Step(t))
-----------------------------------------------------------------------------
(* The listing of a group and of everything, as the tree has them.          *)
GroupListing(u) ==
  LET below[g \in CommandGroups] ==
        <<Open(g)>> \o Permitted(CommandsIn[g], u)
          \o FlattenSeq([i \in DOMAIN GroupsIn[g] |-> below[GroupsIn[g][i]]])
          \o <<End>>
  IN  below

FullListing(u) ==
  Permitted(TopCommands, u)
    \o FlattenSeq([i \in DOMAIN TopGroups |-> GroupListing(u)[TopGroups[i]]])

(* The types of the variables; a thread is in a call of handleSublist       *)
(* exactly while it walks a group.                                          *)
TypeOK ==
  /\ it \in [CommandGroups -> [Kinds -> Int]] /\ reg \in [Threads -> Int]
  /\ atEnd \in [CommandGroups -> [Kinds -> BOOLEAN]]
  /\ pc \in [Threads -> {"idle", "top", "test", "flag", "check", "load",
                         "store", "fetch", "reset"}]
  /\ \A t \in Threads : /\ stack[t] \in Seq(CommandGroups)
                        /\ stack[t] = <<>> <=> pc[t] \in {"idle", "top"}
  /\ kind \in [Threads -> Kinds] /\ user \in [Threads -> Users \cup {None}]
  /\ crashed \in BOOLEAN /\ cutOff \in BOOLEAN /\ alone \in [Threads -> BOOLEAN]

(* A LIST that no other one overlaps shows all the commands the user may    *)
(* execute, each where the tree has it, whatever went on before: however    *)
(* walks interleave, the last to leave a group leaves its iterators at the  *)
(* start.  Only a walk that was cut off does not.                           *)
CompleteListing ==
  \A t \in Threads :
    pc[t] = "idle" /\ user[t] # None /\ alone[t]
      => listing[t] = FullListing(user[t])

(* Whatever the threads do to each other's iterators, what a LIST shows is  *)
(* true: brackets match, a group is inside the group it belongs to, and a   *)
(* command is inside its group and may be executed by the user.             *)
Place(at, line) ==
  CASE ~at.ok -> at
    [] at.ok /\ line[1] = "end" ->
         [open |-> IF at.open = <<>> THEN <<>> ELSE Tail(at.open),
          ok |-> at.open # <<>>]
    [] at.ok /\ line[1] = "open" ->
         [open |-> <<line[2]>> \o at.open,
          ok |-> line[2] \in ToSet(IF at.open = <<>> THEN TopGroups
                                   ELSE GroupsIn[Head(at.open)])]
    [] OTHER ->
         [open |-> at.open,
          ok |-> line[2] \in ToSet(IF at.open = <<>> THEN TopCommands
                                   ELSE CommandsIn[Head(at.open)])]

(* Where the lines lead, one after the other.                               *)
Nesting(lines) ==
  LET after[n \in 0..Len(lines)] ==
        IF n = 0 THEN [open |-> <<>>, ok |-> TRUE] ELSE Place(after[n - 1], lines[n])
  IN  after[Len(lines)]

SoundListing ==
  \A t \in Threads : user[t] # None =>
    /\ Nesting(listing[t]).ok /\ (pc[t] = "idle" => Nesting(listing[t]).open = <<>>)
    /\ \A i \in DOMAIN listing[t] : listing[t][i][1] = "command"
         => CanExecute(listing[t][i][2], user[t])

(* No array of the tree is read out of its bounds.                          *)
InBounds == ~crashed

(* A LIST ends, however it and the others under way move and reset each     *)
(* other's iterators and whatever earlier ones left there, as long as the   *)
(* other threads do not begin LISTs for ever: each of those may reset an    *)
(* iterator under this one, which then goes through a group again.          *)
BeginsFew(t) == \E n \in 0..MaxLists[t] : <>[](lists[t] = n)
ListingsEnd ==
  \A t \in Threads : (\A x \in Threads \ {t} : BeginsFew(x)) =>
    (pc[t] # "idle" ~> pc[t] = "idle" \/ crashed)
=============================================================================

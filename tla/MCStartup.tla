----------------------------- MODULE MCStartup -----------------------------
EXTENDS Setup

Empty == [x \in {} |-> <<>>]

\* Two users, one of them in a group; a group of commands in two others, of
\* which one is at the top level and one is not.
Good ==
  [ users |-> {"ann", "bob"},
    userGroups |-> [staff |-> <<User("ann")>>],
    commands |-> [date |-> <<User("bob"), Group("staff")>>,
                  copy |-> <<Group("staff")>>, move |-> <<>>],
    commandGroups |->
      [files |-> <<Command("copy"), CommandGroup("disk"), CommandGroup("old")>>,
       disk |-> <<Command("move"), CommandGroup("old")>>,
       old |-> <<Command("copy")>>],
    invalid |-> {}, unnamed |-> {}, unreadable |-> {} ]

\* A user and a group of the same name.
Namesakes ==
  [Good EXCEPT !.users = {"ann", "staff"},
               !.commands = [date |-> <<User("ann"), Group("staff")>>,
                             copy |-> <<>>, move |-> <<User("staff")>>]]

\* The same, and the group names a user who is not there.
HiddenMissing ==
  [Good EXCEPT !.users = {"bob", "staff"},
               !.commands = [date |-> <<User("bob")>>, copy |-> <<>>,
                             move |-> <<User("staff")>>]]

\* A user, a group, a command or a command group that is not there.
Missing ==
  { [Good EXCEPT !.users = {"bob"}],
    [Good EXCEPT !.userGroups = Empty],
    [Good EXCEPT !.commands = [date |-> <<>>, copy |-> <<>>]],
    [Good EXCEPT !.commandGroups =
       [files |-> <<Command("copy"), CommandGroup("disk")>>,
        old |-> <<Command("move")>>]] }

\* Command groups inside each other.
Cycle ==
  [Good EXCEPT !.commandGroups =
     [files |-> <<Command("copy"), CommandGroup("disk")>>,
      disk |-> <<CommandGroup("old")>>,
      old |-> <<Command("move"), CommandGroup("disk")>>]]

\* A file that cannot be read: of a user, of a group that is at the top level,
\* or of one inside it, or of a group that a user may hide.
Unreadable ==
  { [Good EXCEPT !.unreadable = {x}] :
      x \in {User("ann"), Command("copy"), CommandGroup("files"), CommandGroup("old")} }
    \cup {[HiddenMissing EXCEPT !.unreadable = {Group("staff")}]}

\* A small configuration: any one of its files is being made.
Small ==
  [ users |-> {"ann", "bob"},
    userGroups |-> [staff |-> <<User("ann")>>],
    commands |-> [date |-> <<User("ann"), Group("staff")>>],
    commandGroups |-> [disk |-> <<Command("date")>>,
                       files |-> <<CommandGroup("disk")>>],
    invalid |-> {}, unnamed |-> {}, unreadable |-> {} ]

MCConfigurations == {Good, Namesakes, HiddenMissing, Cycle, Small} \cup Missing \cup Unreadable
MCChanging == {Small}

\* Users a group is made of; one has no name and no password.
MCPeople == {User("ann"), User("bob"), User("")}
MCInvalid == {User("")}
=============================================================================

----------------------------- MODULE MCListWalk -----------------------------
(* A group with two commands and two subgroups, one of them empty; the same *)
(* tree without the empty one; and one with three groups at the top level,  *)
(* the last of which has a subgroup.                                        *)
EXTENDS ListDialog

CONSTANTS t1, t2
MCMaxLists == [t \in Threads |-> IF t = t1 THEN 2 ELSE 1]

MCNameOf == [date |-> "date", copy |-> "copy", move |-> "move",
             wipe |-> "wipe", disk |-> "disk", old |-> "old",
             files |-> "files", home |-> "home"]
MCTopCommands == <<"date">>
MCTopGroups == <<"files">>
MCCommandsIn == [files |-> <<"copy", "wipe">>, disk |-> <<"move">>, old |-> <<>>]
MCGroupsIn == [files |-> <<"old", "disk">>, disk |-> <<>>, old |-> <<>>]
MCOneSubgroup == [MCGroupsIn EXCEPT !["files"] = <<"disk">>]
MCNoCommands == <<>>
MCThreeGroups == <<"old", "home", "files">>
MCThreeGroupsCommands ==
  [files |-> <<"wipe">>, disk |-> <<"copy", "move">>, old |-> <<"date">>,
   home |-> <<"move">>]
MCThreeGroupsGroups ==
  [files |-> <<"disk">>, disk |-> <<>>, old |-> <<>>, home |-> <<>>]
MCCommandPerms == [date |-> {"staff"}, copy |-> {"ann"}, move |-> {"staff"},
                   wipe |-> {}]
MCMembers == [staff |-> {"ann", "bob"}]
MCNumParams == [date |-> 0, copy |-> 2, move |-> 2, wipe |-> 0]
MCPasswordOf == [ann |-> "pa", bob |-> "pb"]
=============================================================================

---------------------------- MODULE MCRCFSession ----------------------------
(***************************************************************************)
(* A small catalogue for RCFSession: two users, one of them in a group;    *)
(* a top-level command with no parameter for the group, a command with two *)
(* parameters for ann alone in a nested group, and one nobody may run.     *)
(***************************************************************************)
EXTENDS RCFSession

MCNameOf == [date |-> "date", copy |-> "copy", wipe |-> "wipe",
             files |-> "files", disk |-> "disk"]
MCTopCommands == <<"date">>
MCTopGroups == <<"files">>
MCCommandsIn == [files |-> <<"wipe">>, disk |-> <<"copy">>]
MCGroupsIn == [files |-> <<"disk">>, disk |-> <<>>]
MCCommandPerms == [date |-> {"staff"}, copy |-> {"ann"}, wipe |-> {}]
MCMembers == [staff |-> {"ann", "bob"}]
MCNumParams == [date |-> 0, copy |-> 2, wipe |-> 0]
MCPasswordOf == [ann |-> "pa", bob |-> "pb"]
MCPath == [date |-> <<"date">>, copy |-> <<"files", "disk", "copy">>,
           wipe |-> <<"files", "wipe">>, rm |-> <<"files", "rm">>,
           ls |-> <<"ls">>, other |-> <<"other", "date">>]
MCPathOf(Q) == [q \in Q |-> MCPath[q]]
PathOfQueries == MCPathOf(Queries)

(* What commands print.                                                     *)
Plain == {<< <<>>, <<>> >>, << <<"x", "", "y">>, <<>> >>, << <<"x">>, <<"e">> >>}
OneOutput == {<< <<"x">>, <<"e">> >>}
Markers == {<< <<"ERREND", "x">>, <<>> >>}
=============================================================================

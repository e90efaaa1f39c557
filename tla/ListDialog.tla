----------------------------- MODULE ListDialog -----------------------------
(***************************************************************************)
(* The list dialog of wxRCF: what it makes of the answers to LIST of the   *)
(* servers that were selected together.  The servers are the threads of    *)
(* ListWalk, with the users logged in there.                               *)
(*                                                                         *)
(* The dialog turns each answer into queries, keeps those that all servers *)
(* have, and puts them into a tree of command groups and commands.  A name *)
(* in the tree is a sequence of names: the text of all of them, one after  *)
(* the other.  The tree is the sequence of the paths from the root to its  *)
(* leaves, in the order in which they were added; the groups of a node are *)
(* in the order in which their first leaves were.                          *)
(***************************************************************************)
EXTENDS ListWalk

CONSTANT EndNames     \* the names of command groups that start with "end"

ASSUME DialogAssumption ==
  /\ EndNames \subseteq {NameOf[g] : g \in CommandGroups}
  /\ IsFiniteSet(Threads)      \* the rows of the main window

\* A line in brackets that starts with "[end" closes a group.
Closes(line) == line[1] = "end" \/ (line[1] = "open" /\ NameOf[line[2]] \in EndNames)

\* A line of the answer: it opens or closes a group, or is a command, whose
\* query has the groups that are open before its name.  Closing what is not
\* open pops an empty vector.
ParseLine(at, line) ==
  CASE Closes(line) -> [at EXCEPT !.parts = Front(@), !.ok = @ /\ at.parts # <<>>]
    [] ~Closes(line) /\ line[1] = "open" ->
         [at EXCEPT !.parts = Append(@, NameOf[line[2]])]
    [] OTHER -> [at EXCEPT !.queries = Append(@, Append(at.parts, NameOf[line[2]]))]

NothingParsed == [parts |-> <<>>, queries |-> <<>>, ok |-> TRUE]
Parse(lines) ==
  LET after[n \in 0..Len(lines)] ==
        IF n = 0 THEN NothingParsed ELSE ParseLine(after[n - 1], lines[n])
  IN  after[Len(lines)]

\* Mutant of Common: a query that another answer lacks is not excluded.
CommonToFirst(answers) == Head(answers)

\* finalQueryList: the queries of the first answer that all answers have, in
\* its order.
InAll(answers, query) == \A i \in DOMAIN answers : Contains(answers[i], query)
Common(answers) ==
  LET first == Head(answers)
      common[n \in 0..Len(first)] ==
        IF n = 0 THEN <<>>
        ELSE IF InAll(answers, first[n]) THEN Append(common[n - 1], first[n])
        ELSE common[n - 1]
  IN  common[Len(first)]

\* The groups below a node of the tree, in order.
AddGroup(groups, leaf, node) ==
  LET next == Len(node) + 1 IN
  IF Len(leaf) > next /\ IsPrefix(node, leaf) /\ ~Contains(groups, leaf[next])
  THEN Append(groups, leaf[next])
  ELSE groups

Groups(leaves, node) ==
  LET groups[n \in 0..Len(leaves)] ==
        IF n = 0 THEN <<>> ELSE AddGroup(groups[n - 1], leaves[n], node)
  IN  groups[Len(leaves)]

\* What appendByQuery passes on to a group when a query has the given parts
\* left: all but the first, with colons between them.  When the group is there
\* already, and as many groups are before it as there are such parts, the
\* colons are left out: the parts become one.
PassOn(groups, parts) ==
  IF \E i \in DOMAIN groups : groups[i] = Head(parts) /\ i = Len(parts)
  THEN <<FlattenSeq(Tail(parts))>>
  ELSE Tail(parts)

\* appendByQuery calls itself for the group that the first part names, until
\* one part is left, the command.
Descend(leaves, at) ==
  IF Len(at.parts) = 1 THEN at
  ELSE [node |-> Append(at.node, Head(at.parts)),
        parts |-> PassOn(Groups(leaves, at.node), at.parts)]

Parts(query) == [i \in 1..Len(query) |-> <<query[i]>>]
AppendByQuery(leaves, query) ==
  LET at[n \in 0..Len(query)] ==
        IF n = 0 THEN [node |-> <<>>, parts |-> Parts(query)]
        ELSE Descend(leaves, at[n - 1])
      end == at[Len(query)]
  IN  Append(leaves, end.node \o end.parts)

Tree(queries) ==
  LET tree[n \in 0..Len(queries)] ==
        IF n = 0 THEN <<>> ELSE AppendByQuery(tree[n - 1], queries[n])
  IN  tree[Len(queries)]

\* The dialog for some servers, in the order of the rows of the main window.
Answered == {t \in Threads : pc[t] = "idle" /\ user[t] # None}
Shown(servers) ==
  Tree(Common([i \in DOMAIN servers |-> Parse(listing[servers[i]]).queries]))

\* What the server runs for the query of a leaf that was selected: the texts
\* of the leaf and the nodes above it with colons between them.
ResolveLeaf(leaf, u) ==
  IF \A i \in DOMAIN leaf : Len(leaf[i]) = 1
  THEN Resolve([i \in DOMAIN leaf |-> leaf[i][1]], u)
  ELSE [answer |-> "NCERROR", cmd |-> None]
-----------------------------------------------------------------------------
\* The brackets in an answer match, and every query that the dialog makes of
\* it is one for which the server runs a command for this user.
QueriesRun ==
  \A t \in Answered : LET parsed == Parse(listing[t]) IN
    /\ parsed.ok
    /\ \A i \in DOMAIN parsed.queries : Resolve(parsed.queries[i], user[t]).answer = "RUN"

\* For whichever servers are selected together, and however their threads
\* disturbed each other while they answered: the brackets in an answer match,
\* and every leaf of the tree is a command that each of the servers runs for
\* its user.  And the tree of a server whose LIST nothing disturbed lacks
\* none of the commands its user may execute.
TreeFaithful ==
  /\ QueriesRun
  /\ \A servers \in UNION {SetToSeqs(S) : S \in SUBSET Answered \ {{}}} :
       \A i \in DOMAIN Shown(servers), j \in DOMAIN servers :
         ResolveLeaf(Shown(servers)[i], user[servers[j]]).answer = "RUN"
  /\ \A t \in Answered : alone[t] =>
       \A c \in Commands : CanExecute(c, user[t]) =>
         \E i \in DOMAIN Shown(<<t>>) :
           ResolveLeaf(Shown(<<t>>)[i], user[t]).cmd = c
=============================================================================

----------------------------- MODULE ConfigFile -----------------------------
(***************************************************************************)
(* The files of the configuration: save writes an object into a new file,  *)
(* load reads it with an automaton that knows the sections of the object's *)
(* class.  crcftool and srcftool create objects and save them; one of them *)
(* may be killed while it writes.  Each line is written by a call of its   *)
(* own, because each ends with endl.                                       *)
(*                                                                         *)
(* A line is a mark, "[exec]" or "[usersend]", the value of a section, or  *)
(* the name of another object.                                             *)
(***************************************************************************)
EXTENDS Integers, SequencesExt

VARIABLES
  saving,   \* the object: type, name and the objects it names, in order
  disk,     \* the lines of its file
  tool,     \* the process that saves it, or the one that loads it
  object    \* what load has made of the lines read so far

saveVars == <<saving, disk, tool, object>>

\* What each class keeps: the sections with a value, the sections with a list
\* and the type of what is listed, and the values valid() asks for.
Class ==
  [user |-> [values |-> <<"name", "salt", "hashed_password">>, lists |-> <<>>,
             needs |-> {"name", "salt", "hashed_password"}],
   group |-> [values |-> <<"name">>, lists |-> << <<"users", "user">> >>,
              needs |-> {"name"}],
   command |-> [values |-> <<"name", "exec", "num_params">>,
                lists |-> << <<"users", "user">>, <<"groups", "group">> >>,
                needs |-> {"name", "exec"}],
   commandgroup |-> [values |-> <<"name">>,
                     lists |-> << <<"commands", "command">>, <<"groups", "commandgroup">> >>,
                     needs |-> {"name"}],
   serverdefinition |-> [values |-> <<"name", "hostname", "certfile">>, lists |-> <<>>,
                         needs |-> {"name", "hostname", "certfile"}]]

Mark(section) == <<"mark", section>>
EndMark(section) == <<"endmark", section>>
Value(section) == <<"value", section>>
Entry(x) == <<"entry", x.name>>
IsMark(line) == line[1] \in {"mark", "endmark"}

Listed(names, type) ==
  LET upTo[i \in 0..Len(names)] ==
        IF i = 0 THEN <<>>
        ELSE IF names[i].type = type THEN Append(upTo[i - 1], names[i]) ELSE upTo[i - 1]
  IN  upTo[Len(names)]
Section(names, list) ==
  <<Mark(list[1])>>
    \o [i \in DOMAIN Listed(names, list[2]) |-> Entry(Listed(names, list[2])[i])]
    \o <<EndMark(list[1])>>

\* Mutant of Lines: the lists come before the values.
LinesListsFirst(type, names) ==
  FlattenSeq([i \in DOMAIN Class[type].lists |-> Section(names, Class[type].lists[i])])
    \o FlattenSeq([i \in DOMAIN Class[type].values |->
                     <<Mark(Class[type].values[i]), Value(Class[type].values[i])>>])

\* The lines save writes.
Lines(type, names) ==
  FlattenSeq([i \in DOMAIN Class[type].values |->
                <<Mark(Class[type].values[i]), Value(Class[type].values[i])>>])
    \o FlattenSeq([i \in DOMAIN Class[type].lists |-> Section(names, Class[type].lists[i])])

\* The order in which load finds what an object names.
InOrder(type, names) ==
  FlattenSeq([i \in DOMAIN Class[type].lists |-> Listed(names, Class[type].lists[i][2])])
-----------------------------------------------------------------------------
Blank == <<"value", "">>

\* The automaton of load: the section it is in, ps, and the object so far.
Fresh(type) ==
  [ps |-> Mark("toplevel"), lineno |-> 0, names |-> <<>>, threw |-> FALSE,
   values |-> [s \in ToSet(Class[type].values) |-> Blank]]

Valid(type, o) == \A s \in Class[type].needs : o.values[s] # Blank
Named(o) == o.values["name"] # Blank

ValueSections == ToSet(Class[saving.type].values)
ListSections == {l[1] : l \in ToSet(Class[saving.type].lists)}

\* The object a line of a list names: the section tells what it is.
ObjectIn(section, line) ==
  [type |-> (CHOOSE l \in ToSet(Class[saving.type].lists) : l[1] = section)[2],
   name |-> line[2]]
-----------------------------------------------------------------------------
\* save: the file must not be there; it is created, ...
Create ==
  /\ tool = "started"
  /\ tool' = "writing" /\ disk' = <<>>
  /\ UNCHANGED <<saving, object>>

\* ... and written line by line, ...
WriteLine ==
  /\ tool = "writing" /\ Len(disk) < Len(Lines(saving.type, saving.names))
  /\ disk' = Append(disk, Lines(saving.type, saving.names)[Len(disk) + 1])
  /\ UNCHANGED <<saving, tool, object>>

\* ... and closed.
Saved ==
  /\ tool = "writing" /\ Len(disk) = Len(Lines(saving.type, saving.names))
  /\ tool' = "saved"
  /\ UNCHANGED <<saving, disk, object>>

Killed ==
  /\ tool = "writing"
  /\ tool' = "killed"
  /\ UNCHANGED <<saving, disk, object>>

\* The tool is started again: "Already exists!".
Refused ==
  /\ tool = "killed"
  /\ tool' = "refused"
  /\ UNCHANGED <<saving, disk, object>>

SaveStep == Create \/ WriteLine \/ Saved \/ Killed \/ Refused
-----------------------------------------------------------------------------
\* load: some program opens the file, ...
Open ==
  /\ tool \in {"saved", "killed", "refused"}
  /\ tool' = "loading" /\ object' = Fresh(saving.type)
  /\ UNCHANGED <<saving, disk>>

\* ... and takes line after line.  It leaves every section of a value after
\* the value, but for certfile.
ReadLine ==
  /\ tool = "loading" /\ ~object.threw /\ object.lineno < Len(disk)
  /\ LET line == disk[object.lineno + 1]
         in == object.ps[2]
         next == [object EXCEPT !.lineno = @ + 1]
     IN \/ /\ in = "toplevel" /\ IsMark(line)
           /\ object' = [next EXCEPT !.ps = line]
        \/ /\ in \in ValueSections
           /\ object' = [next EXCEPT !.values[in] = line,
                          !.ps = IF in = "certfile" THEN @ ELSE Mark("toplevel")]
        \/ /\ in \in ListSections /\ line = EndMark(in)
           /\ object' = [next EXCEPT !.ps = Mark("toplevel")]
        \/ /\ in \in ListSections /\ ~IsMark(line)
           /\ object' = [next EXCEPT !.names = Append(@, ObjectIn(in, line))]
        \/ /\ \/ in = "toplevel" /\ ~IsMark(line)
              \/ in \in ListSections /\ IsMark(line) /\ line # EndMark(in)
              \/ in \notin {"toplevel"} \cup ValueSections \cup ListSections
           /\ object' = [next EXCEPT !.threw = TRUE]
  /\ UNCHANGED <<saving, disk, tool>>

EndOfFile ==
  /\ tool = "loading" /\ (object.threw \/ object.lineno = Len(disk))
  /\ tool' = "loaded"
  /\ UNCHANGED <<saving, disk, object>>

LoadStep == Open \/ ReadLine \/ EndOfFile
-----------------------------------------------------------------------------
\* However much of a file was written, it can be read, and what is loaded from
\* it is the saved object without the end of it: no value is another one, no
\* name is one that was not saved, and a name is there only when all the
\* values are: nobody may run a command whose template or number of parameters
\* is missing.  A user who can log in has the password that was saved, a
\* server definition in use its certificate.  And save and load are inverse.
CutFileIsHarmless ==
  tool = "loaded" =>
    /\ ~object.threw
    /\ \A s \in ValueSections : object.values[s] \in {Blank, Value(s)}
    /\ IsPrefix(object.names, InOrder(saving.type, saving.names))
    /\ object.names # <<>> => \A s \in ValueSections : object.values[s] = Value(s)
    /\ disk = Lines(saving.type, saving.names) =>
         /\ \A s \in ValueSections : object.values[s] = Value(s)
         /\ object.names = InOrder(saving.type, saving.names)
=============================================================================

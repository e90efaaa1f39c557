SPECIFICATION Spec
CONSTANTS
  Users = {"ann", "bob"}
  UserGroups = {"staff"}
  Commands = {"date", "copy", "move", "wipe"}
  CommandGroups = {"files", "disk", "old"}
  NameOf <- MCNameOf
  TopCommands <- MCTopCommands
  TopGroups <- MCTopGroups
  CommandsIn <- MCCommandsIn
  GroupsIn <- MCGroupsIn
  CommandPerms <- MCCommandPerms
  Members <- MCMembers
  NumParams <- MCNumParams
  PasswordOf <- MCPasswordOf
  None = None
  EndNames = {}
  Threads = {t1, t2}
  t1 = t1
  t2 = t2
  MaxLists <- MCMaxLists
  Losing = {}
INVARIANTS InBounds
\* The LISTs come to their bound, or the process has crashed.
CHECK_DEADLOCK FALSE

SPECIFICATION Spec
CONSTANTS
  Users = {"ann", "bob"}
  UserGroups = {"staff"}
  Commands = {"date", "copy", "move", "wipe"}
  CommandGroups = {"files", "disk", "old", "home"}
  NameOf <- MCNameOf
  TopCommands <- MCNoCommands
  TopGroups <- MCThreeGroups
  CommandsIn <- MCThreeGroupsCommands
  GroupsIn <- MCThreeGroupsGroups
  CommandPerms <- MCCommandPerms
  Members <- MCMembers
  NumParams <- MCNumParams
  PasswordOf <- MCPasswordOf
  None = None
  EndNames = {}
  Threads = {t1}
  t1 = t1
  t2 = t2
  MaxLists <- MCMaxLists
  Losing = {}
INVARIANT TreeFaithful
\* The LISTs come to their bound.
CHECK_DEADLOCK FALSE

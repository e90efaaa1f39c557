SPECIFICATION Spec
CONSTANTS
  Users = {"ann", "bob"}
  UserGroups = {"staff"}
  Commands = {"date", "copy", "wipe"}
  CommandGroups = {"files", "disk"}
  NameOf <- MCNameOf
  TopCommands <- MCTopCommands
  TopGroups <- MCTopGroups
  CommandsIn <- MCCommandsIn
  GroupsIn <- MCGroupsIn
  CommandPerms <- MCCommandPerms
  Members <- MCMembers
  NumParams <- MCNumParams
  PasswordOf <- MCPasswordOf
  None = None
  Path <- PathOfQueries
  Sessions = {s1, s2}
  Logins = {"ann"}
  Passwords = {"pa", "pb"}
  Queries = {"date"}
  ShortQueries = {}
  Params = {"p"}
  Outputs <- OneOutput
  Codes = {"0"}
  Listable = {"date"}
  MaxRequests = 1
  MaxListed = 1
  Flaky = {}
  RunMayThrow = FALSE
  Untrusting = {s2}
INVARIANTS ServerSurvives
\* Sessions end: every client has left and every thread has returned.
CHECK_DEADLOCK FALSE

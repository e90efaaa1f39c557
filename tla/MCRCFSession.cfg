SPECIFICATION Spec
CONSTANTS
  Users = {"ann", "bob"}
  UserGroups = {"staff"}
  Commands = {"date", "copy", "wipe"}
  CommandGroups = {"files", "disk"}
  NameOf <- MCNameOf
  TopCommands <- MCTopCommands
  TopGroups <- MCTopGroups
  CommandsIn <- MCCommandsIn
  GroupsIn <- MCGroupsIn
  CommandPerms <- MCCommandPerms
  Members <- MCMembers
  NumParams <- MCNumParams
  PasswordOf <- MCPasswordOf
  None = None
  Path <- PathOfQueries
  Sessions = {s1, s2}
  Logins = {"ann", "bob", "eve"}
  Passwords = {"pa", "pb"}
  Queries = {"date", "copy", "wipe", "rm", "other"}
  ShortQueries = {}
  Params = {"p", "q"}
  Outputs <- Plain
  Codes = {"0", "1"}
  Listable = {"date", "copy", "[end]"}
  MaxRequests = 2
  MaxListed = 2
  Flaky = {s1}
  RunMayThrow = TRUE
  Untrusting = {s2}
INVARIANTS TypeOK Authenticated RunsWhatWasAsked Synchronised ResultFaithful NoMutualWait
PROPERTIES ImplementsService RequestsEnd ThreadsEnd
\* Sessions end: every client has left and every thread has returned.
CHECK_DEADLOCK FALSE

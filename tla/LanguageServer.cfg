SPECIFICATION Spec
CONSTANTS
  a = a
  b = b
  user = user
  post = post
  user1 = user1
  user2 = user2
  post1 = post1
  draft = draft
  None = None
  Uri <- MCUri
  Table <- MCTable
  Text <- MCText
  NameOf <- MCNameOf
  Valid <- MCValid
  Length <- MCLength
  StemOf <- MCStemOf
  Nested <- MCNested
  Workspaces <- MCWorkspaces
  Projects = {"none", "standard", "custom"}
  MaxHandlers = 2
  Slots = 1
  MaxInbox = 1
  Restored <- MCRestored
  Now = 1
  MaxEvents = 4
  MaxWrites = 1
  MaxBusy = 0
CHECK_DEADLOCK FALSE
INVARIANTS DiagnosticsSettle DriftSettles IndexFollowsClaim SymbolsCurrent

SPECIFICATION OfficeSpec
CONSTANTS
  Users = {u1, u2}
  NoUser = NoUser
  Visitors = {a1, a2}
  CustomRoles = {"custom"}
  MaxRequests = 3
  KeyTypes = {"blue", "red"}
  Numbers <- SomeNumbers
  h1 = h1
  h2 = h2
  Hexes = {h1, h2}
  Blank = Blank
  BadHex = BadHex
  Homes = {"here", "there"}
  Unassigned = "-"
  Nowhere = "nowhere"
  Clerks = {a1, a2}
  FirstKeys <- SomeTables
  MaxTasks = 3
  TypeNames = {"blue", "red", "azure"}
  Named <- SomeNames
  RegisterFiles <- SomeRegisterFiles
  IssuedFiles <- SomeIssuedFiles
  FreeFiles <- SomeFreeFiles
  PanelIds = {1, 2, 3}
  x1 = x1
  x2 = x2
  Macs = {x1, x2}
  BadMac = BadMac
  NoMac = NoMac
  Cells = {"a", "b"}
  NoCell = ""
  f1 = f1
  f2 = f2
  Firms = {f1, f2}
  Managers = {a1, a2}
  PanelFiles <- SomePanelFiles
  FirstPanels <- SomePanels
  FirstLinks <- SomeLinks
  MaxErrands = 3
SYMMETRY Alike
CHECK_DEADLOCK FALSE
INVARIANTS MissingNumbers DryRunForetells OwnersAreSound
PROPERTIES AdministratorStays ImportReported ImportNeverReplaces MigrationRepeatable PanelImportReported

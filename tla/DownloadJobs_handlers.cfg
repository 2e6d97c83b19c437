SPECIFICATION Spec
CONSTANTS
  f1 = f1
  f2 = f2
  s1 = s1
  s2 = s2
  a1 = a1
  a2 = a2
  r1 = r1
  r2 = r2
  None = None
  MaxJobs = 2
  NzbFiles = {f1}
  NzbFileOf <- OneFile
  Servers = {s1, s2}
  Activities = {a1, a2}
  Reconcilers = {}
  MaxPatches = 1
  MaxProgress = 0
  DownloadSlots = 1
  BROKEN_THRESHOLD = 2
  MaxAge = 0
  MaxCrashes = 1
  UserPatch = {}
  PatchServers = {}
  EditedFiles = {f1}
  Faults = TRUE
SYMMETRY Symmetry
INVARIANTS
  TypeOK
  AtMostOneServerPerJob
  ClaimsExclude
PROPERTIES
  BrokenIsEarned
  TerminalStaysTerminal
  ImplementsLifecycle
CHECK_DEADLOCK FALSE

SPECIFICATION Spec
CONSTANTS
  f1 = f1
  f2 = f2
  s1 = s1
  s2 = s2
  a1 = a1
  a2 = a2
  r1 = r1
  r2 = r2
  None = None
  MaxJobs = 2
  NzbFiles = {f1, f2}
  NzbFileOf <- TwoFiles
  Servers = {s1, s2}
  Activities = {a1, a2}
  Reconcilers = {}
  MaxPatches = 0
  MaxProgress = 0
  DownloadSlots = 1
  BROKEN_THRESHOLD = 1
  MaxAge = 0
  MaxCrashes = 0
  UserPatch = {}
  PatchServers = {}
  EditedFiles = {}
  Faults = FALSE
INVARIANT
  ClaimIsHeld
CHECK_DEADLOCK FALSE

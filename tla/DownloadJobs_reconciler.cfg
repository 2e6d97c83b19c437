SPECIFICATION Spec
CONSTANTS
  f1 = f1
  f2 = f2
  s1 = s1
  s2 = s2
  a1 = a1
  a2 = a2
  r1 = r1
  r2 = r2
  None = None
  MaxJobs = 1
  NzbFiles = {f1}
  NzbFileOf <- OneFile
  Servers = {s1}
  Activities = {a1}
  Reconcilers = {r1, r2}
  MaxPatches = 1
  MaxProgress = 0
  DownloadSlots = 1
  BROKEN_THRESHOLD = 1
  MaxAge = 2
  MaxCrashes = 1
  UserPatch = {"failed"}
  PatchServers = {s1}
  EditedFiles = {}
  Faults = TRUE
SYMMETRY Symmetry
INVARIANTS
  FailureCountedOnce
  VictimIsZombie

SPECIFICATION Spec
CONSTANTS
  f1 = f1
  a1 = a1
  a2 = a2
  None = None
  MaxJobs = 2
  NzbFiles = {f1}
  MaxServers = 2
  Activities = {a1, a2}
  maxUploadVps = 2
  MaxCrashes = 0
  Faults = FALSE
  UserCalls = FALSE
  PatchServers = {}
SYMMETRY Symmetry
INVARIANTS
  OneUploadPerFile

SPECIFICATION FairSpec
CONSTANTS
  f1 = f1
  a1 = a1
  a2 = a2
  None = None
  MaxJobs = 1
  NzbFiles = {f1}
  MaxServers = 2
  Activities = {a1, a2}
  maxUploadVps = 1
  MaxCrashes = 1
  Faults = TRUE
  UserCalls = FALSE
  PatchServers = {1}
INVARIANTS
  TypeOK
  DrainsExclude
  ClaimHeld
PROPERTIES
  EndedNotRequeued
  EndedServersGo

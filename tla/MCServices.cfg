CONSTANTS
  Users = {u1, u2}
  Files = {f1}
  Handlers = {h1, h2}
  Threshold = 1
  GraceDays = 1
  None = None
  Callers = {c1, c2}
  MaxIncidents = 3
  MaxFailures = 4
  Names = {n1, n2}
  Addresses = {a1}
  NoBackend = NoBackend
  MaxQueue = 2
  DownloadQueue = {d1, d2, d3}
  UploadQueue = {w1}
  Provisioners = {p1, p2}
  Locations = 2
  ServerTypes = 2
  globalLimit = 2
  maxUploadVps = 1
  NoJob = NoJob
  Requests = {r1, r2}
  Tokens = {t1, t2, t3}
  MAX_TOKENS_PER_USER = 1
  Adders = {b1, b2}
  Films = {m1, m2, m3, m4}
  MAX_HISTORY_SIZE = 2
  Editors = {e1, e2}
  Values = {v1, s1}
  Secrets = {s1}
  Absent = Absent
  Masked = Masked
  MaxChanges = 3
  Anomalies = {x1, x2}
  FAIL_THRESHOLD = 3
  MAX_RETRIES = 3
  Clients = {k1, k2}
  MaxVersion = 2
  SuccessTtl = 2
  ErrorTtl = 1
SPECIFICATION Spec
INVARIANTS TypeOK LastRemovalDeletes FailuresCounted DuplicatesBounded LastCallWins OverrunBounded OneServerPerRun TokensBounded HistorySettles HistoryTellsValue SecretsStayHidden KillSwitchHolds WatchdogIsPatient NoPhantomEvents RecentEnough OutageEndsSoon
CHECK_DEADLOCK FALSE

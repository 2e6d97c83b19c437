SPECIFICATION Spec
CONSTANTS
  h1 = h1
  f1 = f1
  f2 = f2
  j1 = j1
  j2 = j2
  j3 = j3
  u1 = u1
  u2 = u2
  m1 = m1
  m2 = m2
  q1 = q1
  q2 = q2
  a1 = a1
  p1 = p1
  NoMovie = NoMovie
  None = None
  Hashes = {h1}
  Users = {u1, u2}
  Movies = {m1}
  Files = {f1, f2}
  Jobs = {j1, j2}
  Requests = {q1}
  Assigns = {a1}
  Passes = {p1}
  MAX_TMDB_RETRIES = 2
  MaxCrashes = 0
SYMMETRY Symmetry
INVARIANTS
  ReviewMeansUnassigned

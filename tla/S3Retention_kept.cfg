CONSTANTS
  Users = {u1, u2}
  Files = {f1}
  Handlers = {h1, h2}
  Threshold = 1
  GraceDays = 1
  None = None
SPECIFICATION RetentionSpec
PROPERTY KeptFilmSurvives

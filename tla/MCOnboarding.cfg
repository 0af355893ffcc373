CONSTANTS
  p1 = p1
  h1 = h1
  h2 = h2
  NoProfile = NoProfile
  Profiles = {p1}
  Descriptions = {"text"}
  first = first
  second = second
  Answers = {first, second}
  roles = roles
  skills = skills
  TermFields = {roles, skills}
  PreferenceFields = {"budget"}
  Handlers = {h1, h2}
  MaxRevision = 3
SPECIFICATION Spec
SYMMETRY MCSymmetry
INVARIANTS
  EditsAreNotLost
  ConfirmedAsShown
  DraftKeepsItsAnalysis
  PromptStaysOpen
CHECK_DEADLOCK FALSE

SPECIFICATION Spec
CONSTANTS
  Call = {c1, c2}
  Path = {w, link}
  Canonical <- Linked
  w = w
  link = link
  Kind <- Kinds
  MaxCrashes = 1
  None = None
INVARIANTS OneCommandPerBuildDir NoChildOutlivesCall
PROPERTIES AnswerSaysWhoDecided InterruptedRunsEnd

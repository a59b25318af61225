SPECIFICATION FairSpec
CONSTANTS
  Static = {s}
  Dynamic = {d1, d2}
  SameId = {d1}
  Version <- MCVersion
  Required <- MCRequired
  Browsers <- MCBrowsers
  Layouts <- MCLayouts
  s = s
  d1 = d1
  d2 = d2
  Tries = 1
  None = None
CHECK_DEADLOCK FALSE
INVARIANTS
  ToldTheTruth
  NothingLeftHidden
  OneInstaller
  DecidedOnPrecise
PROPERTIES
  RequestsAnswered

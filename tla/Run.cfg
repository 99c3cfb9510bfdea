\* Two runs of one project; three files, the second with a warning and a blocking gate.
SPECIFICATION RunSpec
CONSTANTS
  Run = {r1, r2}
  NoRun = NoRun
  Count = 3
  warn = warn
  block = block
  Gate = {warn, block}
  Blocking = {block}
  Injected <- MCInjected
  Exit = {"zero", "nonzero", "timeout"}
  Retries = 1
  Options <- MCOptions
  MaxFaults = 1
INVARIANTS
  RunInv
PROPERTIES
  ResultsAreHonest
  PassIsEarned
  RunsEnd
\* A run is a command that ends.
CHECK_DEADLOCK FALSE

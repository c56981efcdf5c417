\* Two tools store, load, edit and compare under one name.
CONSTANTS
  Tools = {"a", "b"}
  Jobs <- MCJobs
  Initial = "before"
  MaxCuts = 1
  None = None
SPECIFICATION Spec
INVARIANTS
  LoadedIsStored
  CachedCanBeLoaded
  SilentIffSame
\* The tools end.
CHECK_DEADLOCK FALSE

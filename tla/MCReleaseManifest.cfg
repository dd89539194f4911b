SPECIFICATION Spec
CONSTANTS
  Models = {"m1", "m2"}
  CompatibleModels = {"m1"}
  Flaws = {"no_marker", "remote_reference"}
  Releases = {r1, r2}
  Arguments <- MCArguments
  Probes = {p1}
  ThresholdsBeside = TRUE
  SameUser = TRUE
  MaxWrites = 4
  Torn = Torn
  None = None
INVARIANTS TypeOK OnlySoundManifests 
PROPERTIES KeepsPipeline

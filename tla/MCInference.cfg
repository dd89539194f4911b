SPECIFICATION Spec
CONSTANTS
  Payloads <- MCPayloads
  RawScores <- MCRawScores
  Contributions <- MCContributions
  Threshold = 7200000
  NotFinite = NotFinite
  None = None
INVARIANTS TypeOK OnlyCleanIsScored ReasonsFitOutcome AdverseFactsReported

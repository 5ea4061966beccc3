\* Every scenario up to one past the scaled limits, recordings of two groups of samples.
CONSTANTS
  MaxWarmups = 2
  MaxMeasured = 2
  MaxHttpWarmups = 1
  MaxHttpBatches = 2
  MaxRequests = 2
  MaxEndpoints = 2
  MaxTransfers = 4
  Symbols = {1, 2, 3}
  Separated = {3}
  MaxDepth = 2
  Costs <- UnequalCosts
  MaxGroups = 2
  MaxHotspots = 1
  MaxPaths = 2
  MaxPathsPerHotspot = 1
  MaxFrames = 3
  Versions = {v1, v2}
  Unknown = none
  MaxEdits = 2
SPECIFICATION Spec
CONSTRAINT RecordOnce
CHECK_DEADLOCK FALSE
INVARIANTS
  TypeOK EvidenceIsComplete MeasuredIsValid HotspotsAccountForSamples
  RecordedJourneyWasDriven RevisedEvidenceIsRefused
PROPERTIES
  ImplementsCapture InterruptionEndsTheMeasurement

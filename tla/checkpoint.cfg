\* Four samples, two ranks, two crashes; every second version is saved in any case.
CONSTANTS
  UseCritic = TRUE
  k0 = k0
  k1 = k1
  Ranks <- MCRanks
  First = k0
  Keep <- MCKeep
  SaveFreq = 2
  TestFreq = 3
  Trigger = 2
  Required = 1
  Total = 4
  Items = 4
  Ahead = 2
  Modes = {"auto", "disable", "resume_path"}
  MaxVersion = 5
  MaxCrashes = 2
  Absent = Absent
  Torn = Torn
SPECIFICATION Spec
INVARIANTS TrackedComplete TrackedUniform NoneTwice BoundedLoss DiskBound Drift

\* Three requests, one at a time; two threads, two workers of the reward model.
CONSTANTS
  q1 = q1
  q2 = q2
  q3 = q3
  Requests <- MCRequests
  Cap <- MCCap
  Rate <- MCRate
  Need <- MCNeed
  MaxConcurrent = 1
  Timeout = 2
  Threads = 2
  WorkerNum = 2
  MaxAttempts = 2
  MaxRetries = 2
SPECIFICATION FairSpec
INVARIANTS BurstBounded CountsKept ParallelBounded
PROPERTIES RewardStands Answered
CHECK_DEADLOCK FALSE

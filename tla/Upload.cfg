\* A request with two pictures and one with a single one, with two outages, a bucket
\* removed or made by hand, and a restart.
SPECIFICATION Spec
CONSTANTS
  f1 = f1
  f2 = f2
  f3 = f3
  pair = pair
  single = single
  Batches = {pair, single}
  Files = {f1, f2, f3}
  BatchOf <- PairAndSingle
  Boot = Boot
  MaxOutages = 2
  MaxOperations = 2
  MaxRestarts = 1
INVARIANTS
  TypeOK
  OkMeansStored
  FailuresExcused
PROPERTY ServerResponds
\* The requests and the faults are limited.
CHECK_DEADLOCK FALSE

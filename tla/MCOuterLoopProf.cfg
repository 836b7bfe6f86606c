SPECIFICATION Spec
CONSTANTS
  bench = bench
  f = f
  g = g
  Functions <- Fns
  Bench <- BenchOnly
  Programs <- SmallPrograms
  Depths <- TwoDepths
  Main = bench
  MaxCalls = 3
  MaxRuns = 2
  MaxTime = 2
INVARIANT NestsWithinDepth
PROPERTY TimesSpec
SYMMETRY Symmetry
CHECK_DEADLOCK FALSE

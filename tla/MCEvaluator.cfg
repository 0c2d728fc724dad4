CONSTANTS
  Trials = 1
  HiddenCases = 1
  Warmup = 1
  Timings = 1
SPECIFICATION EvalSpec
INVARIANT AcceptedAtFullPrecision
CHECK_DEADLOCK FALSE

SPECIFICATION Spec_Reader
CONSTANTS
  Reads = {1, 2}
  Callers = {"a", "b"}
  MaxWorks = 2
  MaxKept = 1
  MaxMishaps = 1
INVARIANTS ReadsWhatWasAsked

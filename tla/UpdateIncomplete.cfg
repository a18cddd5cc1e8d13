\* Three modules of two versions that only go forward; the second version of one has a new dependency, which has one too.
CONSTANTS
  a = a
  b = b
  c = c
  Modules = {a, b, c}
  MaxVersion = 2
  Depends <- Chain
  Configured = {b}
SPECIFICATION Spec
INVARIANTS UpdateLoads

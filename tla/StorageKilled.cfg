\* One program whose two backends change and save their state; it may be killed and started again.
CONSTANTS
  Programs = {p1}
  N = 2
  MaxChanges = 3
SPECIFICATION Spec
INVARIANTS AlwaysWhole QuietSaveKept

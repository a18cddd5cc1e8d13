\* Up to three lines, in any order and with doubles, of three sources.
CONSTANTS
  N = 3
  MaxSources = 3
SPECIFICATION IndexesSpec
INVARIANTS UpdatedAll LoadedAgain

\* Every graph of dependencies of three modules, with every set of available and requested ones.
CONSTANTS
  Modules = {1, 2, 3}
SPECIFICATION FairSpec
INVARIANTS TypeOK Complete DependedOnFirst
PROPERTIES Ends

CONSTANTS
  InputPerms <- MCInputPerms
SPECIFICATION Spec
INVARIANTS
  DocExampleOrder


CONSTANTS
  InputPerms <- MCInputPerms
SPECIFICATION Spec
INVARIANTS
  TypeOK
  IterYieldsAscending

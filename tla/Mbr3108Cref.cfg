CONSTANTS
  MaxFiles = 258
  Debug = FALSE
SPECIFICATION Spec
INVARIANT PoweredWhileOpen

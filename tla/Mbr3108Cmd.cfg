CONSTANTS
  CmdErrs = {253, 255}
  TypeSize = 4
SPECIFICATION Spec
INVARIANT CommandsConfirmed

\* A call ends while its channel is being answered.
CONSTANTS
  Calls = {c1}
  Refusing = {c1}
  Gatekeeper = FALSE
  ReadMax = 2
SPECIFICATION Spec
CHECK_DEADLOCK FALSE
PROPERTIES
  CommandsProcessed

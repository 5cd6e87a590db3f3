SPECIFICATION CliSpec
CONSTANTS
  Procs = {p, q}
  Nobody = Nobody
  MaxCommands = 3
  MaxMigrations = 1
INVARIANTS
  CommandInv
  ExitCodesAreRight
CHECK_DEADLOCK FALSE

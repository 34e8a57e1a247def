SPECIFICATION Spec
CONSTANTS
  Operations <- MCOperations
  MaxTasks = 4
  Modes = {"plain", "shared", "raw"}
  Conns = {c1, c2}
  Faults = {"connect", "begin", "isolate", "configure", "execute", "commit", "rollback", "timeout"}
  MaxFaults = 2
  MaxCommits = 2
  None = None
INVARIANTS
  TypeOK
  OneTransaction
  NeverStale
  WritesPersist
  SettingsAreLocal
PROPERTIES
  ConnectionsReturn
  ImplementsSnapshots

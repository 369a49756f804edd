SPECIFICATION LegalSpec
CONSTANTS
  Processes <- MCProcesses
  NULL = NULL
INVARIANTS
  ListIsChildren

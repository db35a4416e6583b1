SPECIFICATION Spec
CONSTANTS
  Programs <- MCPrograms
  StripSuffix <- MCStripSuffix
  ResponseName <- MCResponseName
INVARIANTS RefsResolve

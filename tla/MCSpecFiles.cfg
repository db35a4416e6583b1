SPECIFICATION FilesSpec
CONSTANTS
  r1 = r1
  r2 = r2
  None = None
  Torn = Torn
  Assembled = Assembled
  Versions <- MCVersions
  Reader <- MCReader
  MaxRuns = 2
SYMMETRY MCSymmetry
INVARIANTS AnswersSettle ServedAsGenerated

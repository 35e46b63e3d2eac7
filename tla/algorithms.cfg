\* Versions of up to two digits and a build of one; three files and a form.
CONSTANTS
  MaxDigit = 2
  MaxVersion = 2
  MaxBuild = 1
  NoAnswer = NoAnswer
SPECIFICATION Spec
INVARIANTS VersionsAreOrdered FirstSourceWins
CHECK_DEADLOCK FALSE

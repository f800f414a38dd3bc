SPECIFICATION FixtureSpec
CONSTANTS
  Invocations = {i1, i2}
  Codes = {1, 2, 3}
  Definitions <- MCDefinitions
  Results <- MCResults
  Trim <- MCTrim
  Blank = ""
  NoText = "none"
  Checked = "checked"
SYMMETRY Symmetry
INVARIANTS SameResultsSameAnswer EveryResultIsNamed
CHECK_DEADLOCK FALSE

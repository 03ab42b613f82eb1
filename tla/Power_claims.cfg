\* What the descriptions of the options and the manual say.
SPECIFICATION FairSpec
CONSTANTS
  Outputs = {o1, o2}
PROPERTIES
  SomeClaimHolds
\* A command for one output among disabled ones is the end of the program.
CHECK_DEADLOCK FALSE

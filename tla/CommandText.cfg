\* Every text of up to five characters, and lists of quoted words.
SPECIFICATION Spec
CONSTANTS
  RawChars <- SomeChars
  MaxRaw = 5
  WordChars <- SomeWordChars
  MaxWord = 2
  MaxCommands = 2
INVARIANTS
  SplitsAsMeant
\* The text has been read.
CHECK_DEADLOCK FALSE

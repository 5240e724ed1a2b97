\* Deadlock is not checked: the topic may have no further message.
CHECK_DEADLOCK FALSE
SPECIFICATION Spec
CONSTANTS
  SequenceIds = {1, 2}
  MaxId = 3
INVARIANT
  DecodedInSequence

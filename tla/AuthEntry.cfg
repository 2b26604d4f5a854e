SPECIFICATION MCSpec
CONSTANTS
  MaxNavigations = 1
  MaxRequests = 1
  MaxDevices = 2
  MaxPublishes = 2
  MaxAttempts = 2
  MaxClicks = 2
INVARIANTS
  SignedOutIsEnded
  DirectoryOwned
  PageIsCurrent
  OnePublish
PROPERTIES
  EntrySettles
CHECK_DEADLOCK FALSE

CONSTANTS
  NotesCap = 1
  Attempts = 2
SPECIFICATION FairSpec
INVARIANTS
  SuccessIsConfirmed
PROPERTIES
  PublishedFollowsDevice
  SilenceIsPublished

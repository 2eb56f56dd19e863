SPECIFICATION FairSpec
CONSTANTS
  MaxJobs = 1
  MaxResults = 1
  MaxBuffers = 1
  MaxOver = 1
  MaxGuarded = 1
  MaxTimers = 1
  MaxPrompts = 1
  MaxApprovals = 1
  MaxActs = 3
  ResponseMode = "voice_prompts"
INVARIANT PendingExact
INVARIANT NoStaleAudio
INVARIANT ApprovalVisible
CHECK_DEADLOCK FALSE
PROPERTY TurnEnds

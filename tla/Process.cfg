CONSTANTS
  Requests <- MCRequests
  Responses <- MCResponses
  MaxPackets = 2
SPECIFICATION FairSpec
INVARIANTS TypeOK NoLostWakeUp SilentOnlyIfLost PopsWhatItWrote LengthsAreLengths
PROPERTIES RequestsInOrder ResponsesInOrder RequestsArrive DestructorNeverHangs ServerNotices
CHECK_DEADLOCK FALSE

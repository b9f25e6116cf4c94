CONSTANTS
  MaxEvents = 3
  MaxMessages = 3
  MaxCalls = 6
  MaxFailures = 1
  MaxSessions = 2
SPECIFICATION FairSpec
INVARIANTS TypeOK EventsConserved NoFetchWhileUnacknowledged OneFetcher AnswersFindTheirCall BrokenOnlyByFailure
PROPERTIES ImplementsStream RequestReturns

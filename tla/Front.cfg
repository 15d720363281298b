SPECIFICATION FairSpec
CONSTANTS
    Devices = {d1, d2}
    NoDevice = NoDevice
    MaxHistory = 1
    MaxTokens = 2
    MaxCalls = 2
INVARIANTS TypeOK CardsAreList OnePoll OneTimer ConfirmNamesTarget
PROPERTIES PollReleased StartUpEnds

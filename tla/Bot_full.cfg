SPECIFICATION BotSpec
CONSTANTS
    MaxInFlight = 1
    MaxBooked = 1
INVARIANTS BotTypeOK PromptIsAnswered
PROPERTIES BookedAsReviewed BookedWhole

SPECIFICATION BotSpec
CONSTANTS
    MaxInFlight = 1
    MaxBooked = 1
INVARIANTS ConfirmedIsStored

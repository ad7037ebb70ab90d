SPECIFICATION RecSpec
CONSTANTS
    power = power
    Series = {power}
    Interval <- EachTick
    Horizon = 1
    Copies = 2
INVARIANTS OnlyPaidRecur

SPECIFICATION LiveSpec
CONSTANTS
    Sessions = {"a", "b", "c"}
    NoKey = "none"
    Workers = {"w1", "w2"}
    MaxOutstanding = 2
    Limits <- MixedLimits
INVARIANT IInv
PROPERTIES Implements TicksGoOn Quiesces
CHECK_DEADLOCK FALSE

SPECIFICATION LiveSpec
CONSTANTS
    Positions <- Line2
    Distance <- LineDistance
    EntityTicking = 0
    MaxLevel = 3
    Requesters = {r1, r2}
    RequestSets <- OneOrBoth
    RequestLevels = {2, 3}
    Players = {u1, u2}
    ViewDistance = 1
    SimulationDistance = 0
    Timed = {"portal", "pearl"}
    TimedLevel <- PortalLevel
    Timeout <- ShortTimeout
    Persistent = {"portal"}
    NoPos = NoPos
    Limits <- MixedLimits
INVARIANTS TablesAgree CommittedHolds ReadyStaysReady
PROPERTIES LastsTimeout RequestsReady TimedEnds

CONSTANTS
    Routes = {r1}
    Names = {A, B}
    Values = {1, 2}
    First = 1
    None = None
    MaxCalls = 3
    MaxLost = 1
    MaxFailed = 1
    MaxExpired = 1
    MaxDeaths = 1
    MaxStale = 1
SPECIFICATION Spec
INVARIANT OvertakenStaysGone

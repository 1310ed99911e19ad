CONSTANTS
    dev = dev
    tone = tone
    hw = hw
    a = a
    b = b
    Requests = {r1}
    Fields <- MCHardwareFields
    LiveDomain <- MCLive
    Device = dev
    Values = {a, b}
    Factory <- MCFactory
    Uploads = {}
    None = None
    Passes = 2
    EditsMeanwhile = FALSE
    LiveMeanwhile = FALSE
    MaxStages = 1
    MaxLive = 1
    MaxLost = 1
    MaxDeaf = 0
    MaxEndpoints = 0
SPECIFICATION FairSpec
INVARIANTS
    PlaysAsChosen
PROPERTIES
    AppliesReturn
